---- MODULE Spec2Model ----
(***************************************************************************)
(* A model of the Vosk-based interpreter helper: the caption processor     *)
(* (src/src/caption_processor.py), the speech recognition engine with its  *)
(* language detector (src/src/speech_recognition_engine.py) and the audio  *)
(* manager (src/src/audio_manager.py), the application that owns them     *)
(* (src/src/live_captioner_modular.py) and what is written to files.       *)
(*                                                                         *)
(* Conventions.  Confidences are integers in hundredths (0.5 is 50).  A    *)
(* text is the sequence of its whitespace-separated words; since only the  *)
(* positions of the words matter, a text of n words is <<1, .., n>> and a  *)
(* filtered text is the subsequence of positions that were kept.  Every    *)
(* `with self.lock:` block is one atomic action, everything outside such a *)
(* block is interleaved with the other threads.  The recognition loop of   *)
(* the engine takes one step per read of shared state that another thread  *)
(* can replace in between: each field of the detector it reads or writes,  *)
(* the routing with its filter, the fallback, each recognizer call, each   *)
(* notification.  The language commands take one step per field of the     *)
(* detector they write.  The detector counts confidences in units of       *)
(* 1/Scale of a hundredth.                                                 *)
(*                                                                         *)
(* The specifications share the variables: SpecCP (the caption processor   *)
(* with its dispatch, display and control threads), SpecDet (the language  *)
(* detector and the routing of frames, the loop running), SpecEng (the     *)
(* threads of the engine), SpecLD (the detector and the language commands  *)
(* called by one thread, one call after the other) and SpecWin (the        *)
(* detector fed until a window runs over), SpecEngLive (SpecEng with a     *)
(* loop thread that keeps taking its steps), SpecAud (the audio manager:   *)
(* stream, device and frame queue) and SpecFrame (the captions under the   *)
(* commands of the other components), SpecErr (the loop with recognizers   *)
(* and a callback that fail), SpecConstruction (the construction of the    *)
(* engine from the installed models), SpecDisk (the log file and the       *)
(* configuration file) and SpecApp (run_application to its end).           *)
(* areturned, session, nopen, ncap, got and naud are history variables of  *)
(* the audio manager; cleared, logged, emitted and installed are history   *)
(* variables too, and disk holds the kinds of data that reached a file.    *)
(* uttOf, stored, snap, override,                                          *)
(* routed, handed, writers, returned, committed and the counters are       *)
(* history variables of the model; committed, the pairs that an operation  *)
(* of the detector has left as its whole state, is kept by the             *)
(* specifications with a running loop.                                     *)
(***************************************************************************)
EXTENDS Integers, Sequences, FiniteSets, TLC

\* ------------------------------------------------------------- bounds
MaxSubmissions == 3
HistoryLimit == 2
MaxControlOps == 1
MaxStarts == 2
MaxFrames == 3
MaxDetFrames == 4
MaxCommands == 3
MaxAdds == 6
MaxWindowAdds == 11
MaxCaptured == 9
MaxAudioOps == 3
MaxFrameSubmissions == 2
MaxErrors == 2
MaxErrFrames == 1
MaxDiskSubmissions == 1
MaxAppFrames == 2

\* ---------------------------------------------------------- constants
Languages == <<"en", "es", "fr">>
Langs == {Languages[i] : i \in 1..Len(Languages)}
None == [kind |-> "None"]
DefaultConfidenceThreshold == 50
PadConfidence == 100
SubmitLangs == {"en", "es"}
\* (number of words, word scores) of the results submitted: no scores, every
\* word below the default threshold, more scores than words (and one of the
\* two words below the default threshold), fewer scores than words
Shapes == {<<1, <<>> >>, <<1, <<40>> >>, <<2, <<70, 40, 70>> >>, <<2, <<70>> >>}
ThresholdInputs == {0, 120}
\* the scopes clear_history is called with: a language, every language
\* (None, written ""), and a language the processor does not know
ClearInputs == {"en", "", "de"}
\* the sets of loaded models the engine is started with
LoadedChoices == {{"en", "es", "fr"}}
\* the word scores of the Finals that reach the detector
DetShapes == {<<70>>}
EngShapes == {<<90>>}
\* the numbers of words an utterance in progress grows to
GrowTo == {4, 5}
\* the arguments of set_active_languages
ActiveInputs == {<<>>, <<"es", "fr", "de">>}
\* the arguments of force_language_detection
ForceInputs == {"fr", "de"}
\* the arguments of set_active_languages when one thread calls everything
DetectorActiveInputs == ActiveInputs \cup {<<"de">>}
\* the sets of loaded models of the engine whose detector is called directly
DetectorLoaded == {{"en", "es", "fr"}}
\* the arguments of the direct calls of add_result: language, word scores
AddInputs == {<<"en", <<30>> >>, <<"en", <<90, 70>> >>, <<"es", <<90>> >>,
              <<"es", <<>> >>}
\* the input devices that PyAudio lists, the one it gives as default, and
\* the arguments of set_device
AvailableDevices == {0, 1}
DefaultDevice == 0
DeviceInputs == {0, 1, 5}
\* the arguments of add_result that fill one window beyond its size
WindowInputs == {<<"en", <<30>> >>, <<"en", <<90, 70>> >>, <<"es", <<>> >>}

VARIABLES
  caption_history,      \* CaptionProcessor.caption_history: lang -> deque
  current_previews,     \* CaptionProcessor.current_previews: lang -> entry | None
  confidence_threshold, \* CaptionProcessor.confidence_threshold
  ppc,                  \* where process_recognition_result stands
  entry,                \* its local caption_entry (with the filter loop's locals)
  snap,                 \* what the last get_all_captions_for_display returned
  nsub,                 \* number of results submitted so far (bounded)
  nctl,                 \* number of calls of the control thread so far (bounded)
  uttOf,                \* per language: number of the utterance in progress
  stored,               \* per language: Finals appended since the last clear, in order
  cleared               \* the scope of the last clear_history and the number of the call

cpvars == <<caption_history, current_previews, confidence_threshold, ppc,
            entry, snap, nsub, nctl, uttOf, stored, cleared>>

VARIABLES
  models,                    \* SpeechRecognitionEngine.models: the loaded languages
  recognizers,               \* SpeechRecognitionEngine.recognizers: its keys, in order
  active_languages,          \* SpeechRecognitionEngine.active_languages
  language_scores,           \* LanguageDetector.language_scores: lang -> window
  current_detected_language, \* LanguageDetector.current_detected_language
  detection_confidence,      \* LanguageDetector.detection_confidence
  override                   \* the language of the operator override in force, or "none"

detvars == <<models, recognizers, active_languages, language_scores,
             current_detected_language, detection_confidence, override>>

VARIABLES
  current_sentences,   \* SpeechRecognitionEngine.current_sentences
  current_confidences, \* SpeechRecognitionEngine.current_confidences
  word_count,          \* SpeechRecognitionEngine.word_count
  processing_thread,   \* SpeechRecognitionEngine.processing_thread (0 is None)
  stop_event,          \* SpeechRecognitionEngine.stop_event
  result_callback,     \* whether a result callback was given
  installed,           \* per language: what the model path and Vosk give
  result_queue,        \* SpeechRecognitionEngine.result_queue
  tpc,                 \* per thread: where _recognition_loop stands
  todo,                \* per thread: what is left of languages_to_process
  routed,              \* per thread: the state its frame was routed from
  pending,             \* per thread: the RecognitionResult it is about to notify
  cpc,                 \* where the control thread stands
  rec,                 \* per language: the recognizer's utterance in progress
  handed,              \* per language: the results handed to the consumer, in order
  writers,             \* who has written the utterance-tracking state
  nframes,             \* audio frames taken so far (bounded)
  logged,              \* errors the loop has caught and written to the log so far
  emitted,             \* per thread: the events notified in its step in progress
  ncmd                 \* control commands issued so far (bounded)

engvars == <<current_sentences, current_confidences, word_count,
             processing_thread, stop_event, result_callback, installed, result_queue,
             tpc, todo, routed, pending, cpc, rec, handed, writers,
             nframes, logged, emitted, ncmd>>

VARIABLES
  upd,        \* per thread: best_language and best_score of its scoring update
  returned,   \* the last call of the language commands and what it returned
  committed,  \* the (detected, confidence) pairs that one operation has written
  nadd        \* direct calls of LanguageDetector.add_result so far (bounded)

ldvars == <<upd, returned, committed, nadd>>

VARIABLES
  audio_queue,          \* AudioManager.audio_queue: the frames put, oldest first
  stream,               \* AudioManager.stream: the device it was opened on | NoStream
  is_recording,         \* AudioManager.is_recording
  current_device_index, \* AudioManager.current_device_index
  areturned,            \* the last call of the audio manager and what it returned
  session,              \* what was called since the stream was started
  nopen,                \* streams opened so far
  ncap,                 \* frames delivered by the driver so far (bounded)
  got,                  \* the frames returned by get_audio_data, in order
  naud                  \* calls of the audio manager so far (bounded)

audvars == <<audio_queue, stream, is_recording, current_device_index,
             areturned, session, nopen, ncap, got, naud>>

VARIABLES
  file_log_level,  \* the level of the log file's handler, "off" without log_to_file
  disk             \* what has been written to a file: the kinds of data in it

fsvars == <<file_log_level, disk>>

VARIABLES
  is_running,  \* LiveCaptioner.is_running
  mpc          \* where the main thread is in run_application

appvars == <<is_running, mpc>>

vars == <<cpvars, detvars, engvars, ldvars, audvars, fsvars, appvars>>

\* ------------------------------------------------------- what is written
\* LiveCaptioner._setup_logging (live_captioner_modular.py, lines 54-69):
\* the root logger writes to a file when log_to_file is set, from log_level
\* on; nothing has been written
LoggingInit(level) ==
  /\ file_log_level = level
  /\ disk = {}

\* LiveCaptioner.__init__ (live_captioner_modular.py, lines 39-42): the
\* application is constructed and run_application has not been called
AppInit ==
  /\ is_running = FALSE
  /\ mpc = "constructed"

\* a log whose warning of a mismatch names the words it counted
LogNamingWords(kinds) ==
  /\ disk' = IF file_log_level = "off" THEN disk
             ELSE disk \cup kinds
                       \cup (IF "word_count" \in kinds THEN {"text"} ELSE {})
  /\ UNCHANGED file_log_level

\* a record of a level at least INFO with values of these kinds in its
\* message reaches the log file
Log(kinds) ==
  /\ disk' = IF file_log_level = "off" THEN disk ELSE disk \cup kinds
  /\ UNCHANGED file_log_level

\* a record of level DEBUG
LogDebug(kinds) ==
  /\ disk' = IF file_log_level = "DEBUG" THEN disk \cup kinds ELSE disk
  /\ UNCHANGED file_log_level

\* ConfigurationManager.save_configuration (configuration_manager.py, lines
\* 106-116): the sections of the configuration are written to the
\* configuration file, and the log names the file
SaveConfiguration ==
  /\ disk' = disk \cup {"config"}
                   \cup (IF file_log_level = "off" THEN {} ELSE {"config_path"})
  /\ UNCHANGED file_log_level
  /\ UNCHANGED <<cpvars, detvars, engvars, ldvars, audvars, appvars>>

\* ------------------------------------------------------------ helpers
Range(s) == {s[i] : i \in 1..Len(s)}

\* list[:n]
Take(s, n) == SubSeq(s, 1, IF n < Len(s) THEN n ELSE Len(s))

\* list[-n:] for n >= 1
Last(s, n) == IF Len(s) <= n THEN s ELSE SubSeq(s, Len(s) - n + 1, Len(s))

\* a deque that was built without maxlen
DequeAppendUnbounded(q, x, limit) == Append(q, x)

\* a deque that drops the entry before the newest one on overflow
DequeAppendEvictsNewest(q, x, limit) ==
  IF limit = 0 THEN <<>>
  ELSE IF Len(q) >= limit THEN Append(SubSeq(q, 1, Len(q) - 1), x)
  ELSE Append(q, x)

\* deque(maxlen=limit).append(x): the oldest entry falls out on overflow
DequeAppend(q, x, limit) ==
  IF limit = 0 THEN <<>>
  ELSE IF Len(q) >= limit THEN Append(Tail(q), x)
  ELSE Append(q, x)

\* lines 135-142: pad the scores with 1.0 or truncate them to the word count
AlignScores(nwords, scores) ==
  IF Len(scores) < nwords
  THEN scores \o [i \in 1..(nwords - Len(scores)) |-> PadConfidence]
  ELSE Take(scores, nwords)

\* ------------------------------------------------- the language detector
\* Confidences of the detector are kept in units of 1/Scale of a hundredth,
\* so that every weighted mean over a window of up to ten results is an
\* integer: Scale is the least common multiple of 1+..+n for n in 3..10.
Scale == 2 * 2 * 3 * 3 * 5 * 7 * 11
Unknown == "unknown"
SupportedLanguages == Languages
DetectionWindowSize == 10
MinSamplesForDetection == 3
DetectionThreshold == 60
MonitoringThreshold == 80
ForcedConfidence == 100

RECURSIVE Sum(_)
Sum(s) == IF s = <<>> THEN 0 ELSE Head(s) + Sum(Tail(s))

\* lines 35: the average word confidence of a result; the word scores of
\* the model are chosen so that the division is exact
AvgConfidence(confidence_scores) == Sum(confidence_scores) \div Len(confidence_scores)

\* a mean that gives every result of the window the same weight
LanguageMean(results) ==
  IF Len(results) < MinSamplesForDetection THEN 0
  ELSE (Sum(results) * Scale) \div Len(results)

\* lines 58-72: the recency-weighted mean of a window, 0 below the floor
LanguageWeight(results) ==
  IF Len(results) < MinSamplesForDetection THEN 0
  ELSE LET total_weight == Sum([i \in 1..Len(results) |-> i])
           weighted_sum == Sum([i \in 1..Len(results) |-> results[i] * i])
       IN (weighted_sum * Scale) \div total_weight

\* line 76: max() over the languages in dict order returns the first maximum
BestLanguage(scores) ==
  LET w(l) == LanguageWeight(scores[l])
      best == CHOOSE i \in 1..Len(SupportedLanguages) :
                /\ \A j \in 1..Len(SupportedLanguages) :
                     w(SupportedLanguages[j]) <= w(SupportedLanguages[i])
                /\ \A j \in 1..(i - 1) :
                     w(SupportedLanguages[j]) < w(SupportedLanguages[i])
  IN SupportedLanguages[best]

\* a window that is never cut
WindowUncut(window, confidence_scores) ==
  Append(window, AvgConfidence(confidence_scores))

\* add_result (lines 29-50): the window of the language after the result
WindowAfter(window, confidence_scores) ==
  Last(Append(window, AvgConfidence(confidence_scores)), DetectionWindowSize)

\* lines 54-77: best_language and best_score, computed from the windows
ScoringUpdate(scores) ==
  [best |-> BestLanguage(scores),
   score |-> LanguageWeight(scores[BestLanguage(scores)])]

\* add_result and _update_language_detection (lines 29-98), called by a
\* thread that nothing interleaves with; the test scripts call it so
AddResult(language, confidence_scores) ==
  IF confidence_scores = <<>>
  THEN UNCHANGED <<language_scores, current_detected_language,
                   detection_confidence>>
  ELSE LET scores == [language_scores EXCEPT
                        ![language] = WindowAfter(@, confidence_scores)]
           u == ScoringUpdate(scores)
       IN /\ language_scores' = scores
          /\ current_detected_language' = u.best
          /\ detection_confidence' = u.score

\* what the control thread leaves alone in the engine
ctlrest == <<current_sentences, current_confidences, word_count,
             processing_thread, stop_event, result_callback, installed, result_queue,
             tpc, todo, routed, pending, rec, handed, writers, nframes, logged, emitted>>

\* the record of a language command: its name, its argument, the value it
\* returns, whether it repeats the command before it, and the name of the
\* command before it
Call(op, arg, value) ==
  [op |-> op, arg |-> arg, value |-> value,
   again |-> returned # None /\ returned.op = op /\ returned.arg = arg,
   after |-> IF returned = None THEN "none" ELSE returned.op]

\* a force_language_detection that takes every language
ForceableAlways(language) == TRUE

\* line 506: language in self.recognizers (line 146: in supported_languages)
Forceable(language) == language \in Range(recognizers)

\* SpeechRecognitionEngine.force_language_detection (lines 504-511), up to
\* the first assignment
ForceLanguageDetection(language) ==
  /\ cpc = "idle"
  /\ ncmd < MaxCommands
  /\ ncmd' = ncmd + 1
  /\ IF Forceable(language)
     THEN /\ current_detected_language' = language
          /\ returned' = Call("force_language_detection", language, TRUE)
          /\ cpc' = "force"
     ELSE /\ returned' = Call("force_language_detection", language, FALSE)
          /\ UNCHANGED <<current_detected_language, cpc>>
  /\ UNCHANGED <<models, recognizers, active_languages, language_scores,
                 detection_confidence, override>>
  /\ UNCHANGED <<ctlrest, upd, committed, nadd>>
  /\ UNCHANGED <<fsvars, audvars, appvars, cpvars>>

\* line 508: the confidence of the forced language
ForceConfidence ==
  /\ cpc = "force"
  /\ cpc' = "idle"
  /\ detection_confidence' = ForcedConfidence * Scale
  /\ override' = returned.arg
  /\ committed' = committed \cup {<<returned.arg, ForcedConfidence * Scale>>}
  /\ UNCHANGED <<models, recognizers, active_languages, language_scores,
                 current_detected_language>>
  /\ UNCHANGED <<ctlrest, ncmd, upd, returned, nadd>>
  /\ UNCHANGED <<audvars, appvars, cpvars>>
  /\ Log({"language"})

\* SpeechRecognitionEngine.reset_language_detection (lines 513-520), up to
\* the first assignment
ResetLanguageDetection ==
  /\ cpc = "idle"
  /\ ncmd < MaxCommands
  /\ ncmd' = ncmd + 1
  /\ current_detected_language' = Unknown
  /\ override' = "none"
  /\ returned' = Call("reset_language_detection", <<>>, "None")
  /\ cpc' = "reset_confidence"
  /\ UNCHANGED <<models, recognizers, active_languages, language_scores,
                 detection_confidence>>
  /\ UNCHANGED <<ctlrest, upd, committed, nadd>>
  /\ UNCHANGED <<fsvars, audvars, appvars, cpvars>>

\* line 585: the languages of the argument that have a model
ValidLanguages(languages) == SelectSeq(languages, LAMBDA l : l \in models)

\* a set_active_languages that takes every list
AcceptedAlways(valid_languages) == TRUE

\* line 589: if valid_languages
Accepted(valid_languages) == valid_languages # <<>>

\* a set_active_languages that flips the membership of the listed languages
ActiveSetFlipped(valid_languages) ==
  (active_languages \ Range(valid_languages))
    \cup (Range(valid_languages) \ active_languages)

\* line 590: set(valid_languages)
ActiveSet(valid_languages) == Range(valid_languages)

\* set_active_languages (lines 578-605), up to the call of the detector's
\* reset_language_detection; like Python's None the value it returns is
\* "None", whether the list was taken or not
SetActiveLanguages(languages) ==
  /\ cpc = "idle"
  /\ ncmd < MaxCommands
  /\ ncmd' = ncmd + 1
  /\ returned' = Call("set_active_languages", languages, "None")
  /\ LET valid_languages == ValidLanguages(languages)
     IN IF Accepted(valid_languages)
        THEN /\ active_languages' = ActiveSet(valid_languages)
             /\ cpc' = "reset_detected"
        ELSE UNCHANGED <<active_languages, cpc>>
  /\ UNCHANGED <<models, recognizers, language_scores,
                 current_detected_language, detection_confidence, override>>
  /\ UNCHANGED <<ctlrest, upd, committed, nadd>>
  /\ UNCHANGED <<audvars, appvars, cpvars>>
  /\ Log({"language"})

\* LanguageDetector.reset_language_detection, line 154
ResetDetected ==
  /\ cpc = "reset_detected"
  /\ cpc' = "reset_confidence"
  /\ current_detected_language' = Unknown
  /\ override' = "none"
  /\ UNCHANGED <<models, recognizers, active_languages, language_scores,
                 detection_confidence>>
  /\ UNCHANGED <<ctlrest, ncmd, ldvars>>
  /\ UNCHANGED <<fsvars, audvars, appvars, cpvars>>

\* lines 155 and 516
ResetConfidence ==
  /\ cpc = "reset_confidence"
  /\ cpc' = "reset_windows"
  /\ detection_confidence' = 0
  /\ UNCHANGED <<models, recognizers, active_languages, language_scores,
                 current_detected_language, override>>
  /\ UNCHANGED <<ctlrest, ncmd, ldvars>>
  /\ UNCHANGED <<fsvars, audvars, appvars, cpvars>>

\* a reset that keeps the newest result of every window
ClearedButNewest(scores) == [l \in DOMAIN scores |-> Last(scores[l], 1)]

\* lines 156-157 and 517-518: every window after clear()
Cleared(scores) == [l \in DOMAIN scores |-> <<>>]

\* lines 156-158 and 517-519
ResetWindows ==
  /\ cpc = "reset_windows"
  /\ cpc' = "idle"
  /\ language_scores' = Cleared(language_scores)
  /\ UNCHANGED <<models, recognizers, active_languages,
                 current_detected_language, detection_confidence, override>>
  /\ UNCHANGED <<ctlrest, ncmd, ldvars>>
  /\ UNCHANGED <<fsvars, audvars, appvars, cpvars>>

\* ------------------------------------------------------ the dispatch loop
\* list(a set): the model lists a set in the order of Languages
ListOf(S) == SelectSeq(Languages, LAMBDA l : l \in S)

\* lines 336-349: the languages a frame is offered to, before the filter
Candidates(detected_lang, confidence, keys) ==
  IF detected_lang = Unknown \/ confidence < DetectionThreshold * Scale
  THEN keys
  ELSE <<detected_lang>> \o
       (IF confidence < MonitoringThreshold * Scale
        THEN Take(SelectSeq(keys, LAMBDA l : l # detected_lang), 1)
        ELSE <<>>)


Threads == 1..MaxStarts
\* the control thread, as a writer
ControlThread == 0
InitialFinalizationThreshold == 4
EmptyText == [utt |-> 0, n |-> 0]
Placeholder == [utt |-> 0, n |-> -1]

\* a thread that was started and has not left _recognition_loop
IsAlive(t) == tpc[t] \notin {"none", "exited"}

\* RecognitionResult (lines 160-169); the text of utterance utt with n words
\* is [utt, n], "..." is Placeholder
RecognitionResult(text, is_final, confidence_scores, language, utt) ==
  [text |-> text, is_final |-> is_final, confidence_scores |-> confidence_scores,
   language |-> language, utt |-> utt]

\* the event a result is: is_final (line 165)
KindOf(result) == IF result.is_final THEN "Final" ELSE "Preview"

\* lines 394-397 and 468-470: the utterance tracking of a language is reset
TrackingReset(L, who) ==
  /\ current_sentences' = [l \in DOMAIN current_sentences \cup L |->
                             IF l \in L THEN EmptyText ELSE current_sentences[l]]
  /\ current_confidences' = [l \in DOMAIN current_confidences \cup L |->
                               IF l \in L THEN <<>> ELSE current_confidences[l]]
  /\ word_count' = [l \in DOMAIN word_count \cup L |->
                      IF l \in L THEN 0 ELSE word_count[l]]
  /\ writers' = IF L = {} THEN writers ELSE writers \cup {who}

\* line 317 with the stop flag set: the thread leaves the loop
LoopExit(t) ==
  /\ tpc[t] = "top"
  /\ stop_event
  /\ tpc' = [tpc EXCEPT ![t] = "exited"]
  /\ UNCHANGED <<detvars, current_sentences, current_confidences, word_count,
                 processing_thread, stop_event, result_callback, installed, result_queue,
                 todo, routed, pending, cpc, rec, handed, writers, nframes, logged, emitted, ncmd>>
  /\ UNCHANGED <<fsvars, audvars, appvars, cpvars, ldvars>>

\* lines 317-334: the stop flag is clear, a frame arrives, and
\* get_detected_language (line 102) reads the detected language
ReadDetected(t, frames) ==
  /\ tpc[t] = "top"
  /\ ~stop_event
  /\ nframes < frames
  /\ nframes' = nframes + 1
  /\ routed' = [routed EXCEPT ![t] = [detected |-> current_detected_language]]
  /\ tpc' = [tpc EXCEPT ![t] = "route"]
  /\ UNCHANGED <<detvars, current_sentences, current_confidences, word_count,
                 processing_thread, stop_event, result_callback, installed, result_queue,
                 todo, pending, cpc, rec, handed, writers, logged, emitted, ncmd>>
  /\ UNCHANGED <<audvars, appvars, cpvars, ldvars>>
  /\ \E due \in BOOLEAN :
       LogDebug(IF due THEN {"detected_language", "detection_confidence"} ELSE {})

\* lines 334-353: get_detected_language reads the confidence, and the
\* candidates are filtered by the active languages
RouteFrame(t) ==
  /\ tpc[t] = "route"
  /\ todo' = [todo EXCEPT ![t] =
               SelectSeq(Candidates(routed[t].detected,
                                    detection_confidence, recognizers),
                         LAMBDA l : l \in active_languages)]
  /\ routed' = [routed EXCEPT ![t] =
                 [detected |-> routed[t].detected,
                  confidence |-> detection_confidence,
                  loaded |-> Range(recognizers),
                  active |-> active_languages]]
  /\ tpc' = [tpc EXCEPT ![t] = "fallback"]
  /\ UNCHANGED <<detvars, current_sentences, current_confidences, word_count,
                 processing_thread, stop_event, result_callback, installed, result_queue,
                 pending, cpc, rec, handed, writers, nframes, logged, emitted, ncmd>>
  /\ UNCHANGED <<fsvars, audvars, appvars, cpvars, ldvars>>

\* lines 357-358: nothing is left after the filter, so the frame goes to
\* the languages that are active now
RouteFallback(t) ==
  /\ tpc[t] = "fallback"
  /\ todo' = [todo EXCEPT ![t] =
               IF todo[t] = <<>> /\ active_languages # {}
               THEN ListOf(active_languages) ELSE @]
  /\ tpc' = [tpc EXCEPT ![t] = "langs"]
  /\ UNCHANGED <<detvars, current_sentences, current_confidences, word_count,
                 processing_thread, stop_event, result_callback, installed, result_queue,
                 routed, pending, cpc, rec, handed, writers, nframes, logged, emitted, ncmd>>
  /\ UNCHANGED <<fsvars, audvars, appvars, cpvars, ldvars>>

\* lines 361-363: the for loop ends, or skips a language without recognizer
NextLanguage(t) ==
  /\ tpc[t] = "langs"
  /\ IF todo[t] = <<>>
     THEN /\ tpc' = [tpc EXCEPT ![t] = "top"]
          /\ todo' = todo
     ELSE /\ Head(todo[t]) \notin Range(recognizers)
          /\ todo' = [todo EXCEPT ![t] = Tail(@)]
          /\ tpc' = tpc
  /\ UNCHANGED <<detvars, current_sentences, current_confidences, word_count,
                 processing_thread, stop_event, result_callback, installed, result_queue,
                 routed, pending, cpc, rec, handed, writers, nframes, logged, emitted, ncmd>>
  /\ UNCHANGED <<fsvars, audvars, appvars, cpvars, ldvars>>

\* What AcceptWaveform does to the recognizer of a language: the utterance
\* in progress gets more words ("more"), nothing was said ("silence"), or
\* the utterance ends and Result() returns its text and word scores.
Outcomes(r, grow, shapes) ==
  {[kind |-> "more", n |-> n, scores |-> <<>>] : n \in {m \in grow : m >= r.n}}
  \cup {[kind |-> "silence", n |-> 0, scores |-> <<>>] : x \in {0} \cap {r.n}}
  \cup {[kind |-> "final", n |-> IF r.n = 0 THEN 1 ELSE r.n, scores |-> sc] :
          sc \in shapes}

\* lines 372-392 with add_result up to line 77: AcceptWaveform, the Final
\* it may bring, its entry in the window and the scores of the windows
AcceptWaveform(t, grow, shapes) ==
  /\ tpc[t] = "langs"
  /\ todo[t] # <<>>
  /\ emitted' = [emitted EXCEPT ![t] = <<>>]
  /\ Head(todo[t]) \in Range(recognizers)
  /\ \E o \in Outcomes(rec[Head(todo[t])], grow, shapes) :
     LET lang_code == Head(todo[t])
         scores == [language_scores EXCEPT
                      ![lang_code] = WindowAfter(@, o.scores)]
     IN IF o.kind = "final"
        THEN /\ rec' = [rec EXCEPT ![lang_code] = [utt |-> @.utt + 1, n |-> 0]]
             /\ pending' = [pending EXCEPT ![t] =
                  RecognitionResult([utt |-> rec[lang_code].utt, n |-> o.n], TRUE,
                                    o.scores, lang_code, rec[lang_code].utt)]
             /\ IF o.scores = <<>>
                THEN /\ tpc' = [tpc EXCEPT ![t] = "track"]
                     /\ UNCHANGED <<language_scores, upd>>
                ELSE /\ language_scores' = scores
                     /\ upd' = [upd EXCEPT ![t] = ScoringUpdate(scores)]
                     /\ tpc' = [tpc EXCEPT ![t] = "detected"]
        ELSE /\ rec' = [rec EXCEPT ![lang_code] = [utt |-> @.utt, n |-> o.n]]
             /\ tpc' = [tpc EXCEPT ![t] = "partial"]
             /\ UNCHANGED <<language_scores, pending, upd>>
  /\ UNCHANGED <<models, recognizers, active_languages,
                 current_detected_language, detection_confidence, override,
                 current_sentences, current_confidences, word_count, writers,
                 processing_thread, stop_event, result_callback, installed, result_queue,
                 todo, routed, cpc, handed, nframes, logged, ncmd>>
  /\ UNCHANGED <<fsvars, audvars, appvars, cpvars, returned, committed, nadd>>

\* lines 81 and 85: the scoring update assigns the detected language
WriteDetected(t) ==
  /\ tpc[t] = "detected"
  /\ tpc' = [tpc EXCEPT ![t] = "confidence"]
  /\ current_detected_language' = upd[t].best
  /\ UNCHANGED <<models, recognizers, active_languages, language_scores,
                 detection_confidence, override>>
  /\ UNCHANGED <<current_sentences, current_confidences, word_count,
                 processing_thread, stop_event, result_callback, installed, result_queue,
                 todo, routed, pending, cpc, rec, handed, writers, nframes, logged, emitted, ncmd>>
  /\ UNCHANGED <<fsvars, audvars, appvars, cpvars, ldvars>>

\* lines 82 and 86: the scoring update assigns the confidence
WriteConfidence(t) ==
  /\ tpc[t] = "confidence"
  /\ tpc' = [tpc EXCEPT ![t] = "track"]
  /\ detection_confidence' = upd[t].score
  /\ committed' = committed \cup {<<upd[t].best, upd[t].score>>}
  /\ upd' = [upd EXCEPT ![t] = None]
  /\ UNCHANGED <<models, recognizers, active_languages, language_scores,
                 current_detected_language, override>>
  /\ UNCHANGED <<current_sentences, current_confidences, word_count,
                 processing_thread, stop_event, result_callback, installed, result_queue,
                 todo, routed, pending, cpc, rec, handed, writers, nframes, logged, emitted, ncmd>>
  /\ UNCHANGED <<fsvars, audvars, appvars, cpvars, returned, nadd>>

\* lines 394-397: the sentence tracking of the language is reset
ResetTracking(t) ==
  /\ tpc[t] = "track"
  /\ tpc' = [tpc EXCEPT ![t] = "final"]
  /\ TrackingReset({pending[t].language}, t)
  /\ UNCHANGED <<detvars, processing_thread, stop_event, result_callback, installed,
                 result_queue, todo, routed, pending, cpc, rec, handed,
                 nframes, logged, emitted, ncmd>>
  /\ UNCHANGED <<fsvars, audvars, appvars, cpvars, ldvars>>

\* a result queue of capacity one, where put drops the result when full
NotifyResultBoundedQueue(result) ==
  /\ handed' = IF result_callback \/ Len(result_queue) < 1
               THEN [handed EXCEPT ![result.language] = Append(@, result)]
               ELSE handed
  /\ result_queue' = IF result_callback \/ Len(result_queue) >= 1
                     THEN result_queue
                     ELSE Append(result_queue, result)

\* _notify_result (lines 444-455): the callback is called, or the result is
\* put on the unbounded queue
NotifyResult(result) ==
  /\ handed' = [handed EXCEPT ![result.language] = Append(@, result)]
  /\ result_queue' = IF result_callback THEN result_queue
                     ELSE Append(result_queue, result)

\* line 400: the Final is notified
NotifyFinal(t) ==
  /\ tpc[t] = "final"
  /\ NotifyResult(pending[t])
  /\ emitted' = [emitted EXCEPT ![t] = Append(@, KindOf(pending[t]))]
  /\ pending' = [pending EXCEPT ![t] = None]
  /\ tpc' = [tpc EXCEPT ![t] = "partial"]
  /\ UNCHANGED <<detvars, current_sentences, current_confidences, word_count,
                 processing_thread, stop_event, result_callback, installed,
                 todo, routed, cpc, rec, writers, nframes, logged, ncmd>>
  /\ UNCHANGED <<fsvars, audvars, appvars, cpvars, ldvars>>

\* lines 403-438: PartialResult is read and the preview built
ReadPartial(t) ==
  /\ tpc[t] = "partial"
  /\ LET lang_code == Head(todo[t])
         partial_text == [utt |-> rec[lang_code].utt, n |-> rec[lang_code].n]
     IN IF partial_text.n = 0
        THEN \* no partial text: the next language
             /\ todo' = [todo EXCEPT ![t] = Tail(@)]
             /\ tpc' = [tpc EXCEPT ![t] = "langs"]
             /\ UNCHANGED <<pending, current_sentences, current_confidences,
                            word_count, writers, logged>>
        ELSE IF partial_text.n <= InitialFinalizationThreshold
        THEN /\ pending' = [pending EXCEPT ![t] =
                  RecognitionResult(Placeholder, FALSE, <<>>, lang_code,
                                    partial_text.utt)]
             /\ tpc' = [tpc EXCEPT ![t] = "preview"]
             /\ UNCHANGED <<todo, current_sentences, current_confidences,
                            word_count, writers, logged>>
        ELSE IF lang_code \notin DOMAIN current_sentences
        THEN \* KeyError at line 420, logged at line 442
             /\ todo' = [todo EXCEPT ![t] = Tail(@)]
             /\ tpc' = [tpc EXCEPT ![t] = "langs"]
             /\ logged' = logged + 1
             /\ UNCHANGED <<pending, current_sentences, current_confidences,
                            word_count, writers>>
        ELSE /\ current_sentences' = [current_sentences EXCEPT ![lang_code] = partial_text]
             /\ current_confidences' = [l \in DOMAIN current_confidences \cup {lang_code} |->
                                          IF l = lang_code THEN <<>>
                                          ELSE current_confidences[l]]
             /\ word_count' = [l \in DOMAIN word_count \cup {lang_code} |->
                                 IF l = lang_code THEN partial_text.n ELSE word_count[l]]
             /\ writers' = writers \cup {t}
             /\ pending' = [pending EXCEPT ![t] =
                  RecognitionResult(partial_text, FALSE, <<>>, lang_code,
                                    partial_text.utt)]
             /\ tpc' = [tpc EXCEPT ![t] = "preview"]
             /\ UNCHANGED <<todo, logged>>
  /\ UNCHANGED <<detvars, processing_thread, stop_event, result_callback, installed,
                 result_queue, routed, cpc, rec, handed, nframes, ncmd>>
  /\ UNCHANGED <<audvars, appvars, cpvars, ldvars>>
  /\ emitted' = [emitted EXCEPT ![t] = IF tpc'[t] = "langs" THEN <<>> ELSE @]
  /\ Log(IF logged' # logged THEN {"language", "error"} ELSE {})

\* lines 417 and 439: the preview is notified
NotifyPreview(t) ==
  /\ tpc[t] = "preview"
  /\ NotifyResult(pending[t])
  /\ emitted' = [emitted EXCEPT ![t] = <<>>]
  /\ pending' = [pending EXCEPT ![t] = None]
  /\ todo' = [todo EXCEPT ![t] = Tail(@)]
  /\ tpc' = [tpc EXCEPT ![t] = "langs"]
  /\ UNCHANGED <<detvars, current_sentences, current_confidences, word_count,
                 processing_thread, stop_event, result_callback, installed,
                 routed, cpc, rec, writers, nframes, logged, ncmd>>
  /\ UNCHANGED <<fsvars, audvars, appvars, cpvars, ldvars>>

\* lines 372-373 and 441-442, the frame ending the loop's work on it: the
\* error of one language drops the rest of languages_to_process
ResultMalformedEndsFrame(t) ==
  /\ tpc[t] = "langs"
  /\ todo[t] # <<>>
  /\ Head(todo[t]) \in Range(recognizers)
  /\ logged < MaxErrors
  /\ logged' = logged + 1
  /\ emitted' = [emitted EXCEPT ![t] = <<>>]
  /\ rec' = [rec EXCEPT ![Head(todo[t])] = [utt |-> @.utt + 1, n |-> 0]]
  /\ todo' = [todo EXCEPT ![t] = <<>>]
  /\ UNCHANGED <<detvars, current_sentences, current_confidences, word_count,
                 processing_thread, stop_event, result_callback, installed, result_queue,
                 tpc, routed, pending, cpc, handed, writers, nframes, ncmd>>
  /\ UNCHANGED <<audvars, appvars, cpvars, ldvars>>
  /\ Log({"language", "error"})

\* lines 372-373 and 441-442: AcceptWaveform ends the utterance and Result()
\* is not JSON (or its 'result' holds no dictionaries): json.loads raises,
\* the error is logged and _process_audio_for_language returns
ResultMalformed(t) ==
  /\ tpc[t] = "langs"
  /\ todo[t] # <<>>
  /\ Head(todo[t]) \in Range(recognizers)
  /\ logged < MaxErrors
  /\ logged' = logged + 1
  /\ emitted' = [emitted EXCEPT ![t] = <<>>]
  /\ rec' = [rec EXCEPT ![Head(todo[t])] = [utt |-> @.utt + 1, n |-> 0]]
  /\ todo' = [todo EXCEPT ![t] = Tail(@)]
  /\ UNCHANGED <<detvars, current_sentences, current_confidences, word_count,
                 processing_thread, stop_event, result_callback, installed, result_queue,
                 tpc, routed, pending, cpc, handed, writers, nframes, ncmd>>
  /\ UNCHANGED <<audvars, appvars, cpvars, ldvars>>
  /\ Log({"language", "error"})

\* lines 403 and 441-442: PartialResult() is not JSON
PartialMalformed(t) ==
  /\ tpc[t] = "partial"
  /\ logged < MaxErrors
  /\ logged' = logged + 1
  /\ emitted' = [emitted EXCEPT ![t] = <<>>]
  /\ todo' = [todo EXCEPT ![t] = Tail(@)]
  /\ tpc' = [tpc EXCEPT ![t] = "langs"]
  /\ UNCHANGED <<detvars, current_sentences, current_confidences, word_count,
                 processing_thread, stop_event, result_callback, installed, result_queue,
                 routed, pending, cpc, rec, handed, writers, nframes, ncmd>>
  /\ UNCHANGED <<audvars, appvars, cpvars, ldvars>>
  /\ Log({"language", "error"})

\* _notify_result with a callback that raises (lines 446-450): the error is
\* logged and the caller goes on; the callback has taken the result before
\* it failed, or it has not
CallbackFails(t) ==
  /\ tpc[t] \in {"final", "preview"}
  /\ result_callback
  /\ logged < MaxErrors
  /\ logged' = logged + 1
  /\ \E took \in BOOLEAN :
       /\ handed' = IF took
                    THEN [handed EXCEPT ![pending[t].language] = Append(@, pending[t])]
                    ELSE handed
       /\ emitted' = [emitted EXCEPT ![t] =
                       IF tpc[t] = "preview" THEN <<>>
                       ELSE IF took THEN Append(@, KindOf(pending[t])) ELSE @]
  /\ pending' = [pending EXCEPT ![t] = None]
  /\ IF tpc[t] = "final"
     THEN /\ tpc' = [tpc EXCEPT ![t] = "partial"]
          /\ todo' = todo
     ELSE /\ tpc' = [tpc EXCEPT ![t] = "langs"]
          /\ todo' = [todo EXCEPT ![t] = Tail(@)]
  /\ UNCHANGED <<detvars, current_sentences, current_confidences, word_count,
                 processing_thread, stop_event, result_callback, installed, result_queue,
                 routed, cpc, rec, writers, nframes, ncmd>>
  /\ UNCHANGED <<audvars, appvars, cpvars, ldvars>>
  /\ Log({"error"})

\* --------------------------------------------------- the control thread
\* start_recognition (lines 286-297)
StartRecognition ==
  /\ cpc = "idle"
  /\ ncmd < MaxCommands
  /\ ncmd' = ncmd + 1
  /\ IF processing_thread # 0 /\ IsAlive(processing_thread)
     THEN UNCHANGED <<stop_event, processing_thread, tpc>>
     ELSE /\ \E t \in Threads : tpc[t] = "none"
          /\ LET t == CHOOSE x \in Threads :
                        tpc[x] = "none" /\ \A y \in 1..(x - 1) : tpc[y] # "none"
             IN /\ stop_event' = FALSE
                /\ processing_thread' = t
                /\ tpc' = [tpc EXCEPT ![t] = "top"]
  /\ UNCHANGED <<detvars, current_sentences, current_confidences, word_count,
                 result_callback, installed, result_queue, todo, routed, pending, cpc,
                 rec, handed, writers, nframes, logged, emitted>>
  /\ UNCHANGED <<fsvars, audvars, appvars, cpvars, ldvars>>

\* stop_recognition up to the join (lines 299-303), also as called by
\* shutdown (line 611)
StopBegin(then) ==
  /\ cpc = "idle"
  /\ ncmd < MaxCommands
  /\ ncmd' = ncmd + 1
  /\ IF processing_thread # 0
     THEN /\ stop_event' = TRUE
          /\ cpc' = IF then = "idle" THEN "join" ELSE "join_shutdown"
     ELSE /\ stop_event' = stop_event
          /\ cpc' = then
  /\ UNCHANGED <<detvars, current_sentences, current_confidences, word_count,
                 processing_thread, result_callback, installed, result_queue, tpc, todo,
                 routed, pending, rec, handed, writers, nframes, logged, emitted>>
  /\ UNCHANGED <<fsvars, audvars, appvars, cpvars, ldvars>>

StopRecognition == StopBegin("idle")

Shutdown == StopBegin("clearing")

\* join(timeout=2.0) returns (lines 303-308): the thread has left the loop,
\* or two seconds have passed while it was busy with a frame
JoinReturns ==
  /\ cpc \in {"join", "join_shutdown"}
  /\ tpc[processing_thread] # "top"
  /\ processing_thread' = 0
  /\ cpc' = IF cpc = "join" THEN "idle" ELSE "clearing"
  /\ UNCHANGED <<detvars, current_sentences, current_confidences, word_count,
                 stop_event, result_callback, installed, result_queue, tpc, todo, routed,
                 pending, rec, handed, writers, nframes, logged, emitted, ncmd>>
  /\ UNCHANGED <<fsvars, audvars, appvars, cpvars, ldvars>>

\* shutdown after stop_recognition (lines 613-625)
ShutdownClear ==
  /\ cpc = "clearing"
  /\ cpc' = "idle"
  /\ models' = {}
  /\ recognizers' = <<>>
  /\ current_sentences' = <<>>
  /\ current_confidences' = <<>>
  /\ word_count' = <<>>
  /\ writers' = writers \cup {ControlThread}
  /\ result_queue' = <<>>
  /\ UNCHANGED <<active_languages, language_scores, current_detected_language,
                 detection_confidence, override, processing_thread, stop_event,
                 result_callback, installed, tpc, todo, routed, pending, rec, handed,
                 nframes, logged, emitted, ncmd>>
  /\ UNCHANGED <<fsvars, audvars, appvars, cpvars, ldvars>>

\* reset_recognition (lines 464-478); language "" stands for None (all)
ResetRecognition(language) ==
  /\ cpc = "idle"
  /\ ncmd < MaxCommands
  /\ ncmd' = ncmd + 1
  /\ TrackingReset(IF language = "" THEN Range(recognizers)
                   ELSE {language} \cap Range(recognizers), ControlThread)
  /\ UNCHANGED <<detvars, processing_thread, stop_event, result_callback, installed,
                 result_queue, tpc, todo, routed, pending, cpc, rec, handed,
                 nframes, logged, emitted>>
  /\ UNCHANGED <<audvars, appvars, cpvars, ldvars>>
  /\ Log(IF language = "" THEN {} ELSE {"language"})

\* ------------------------------------------------ the construction
\* what a language can have on this machine: no model at its path, a model
\* that vosk.Model does not load, a model that loads but for which
\* KaldiRecognizer or SetWords raises, or a model with its recognizer
Installations == {"missing", "corrupt", "norecognizer", "ok"}

\* __init__ up to line 207 and LanguageDetector.__init__ (lines 19-27):
\* the engine before _initialize_recognition_system
Constructing(machine, callback) ==
  /\ installed = machine
  /\ models = {}
  /\ recognizers = <<>>
  /\ active_languages = {"en", "es"}
  /\ language_scores = [l \in Langs |-> <<>>]
  /\ current_detected_language = Unknown
  /\ detection_confidence = 0
  /\ override = "none"
  /\ current_sentences = <<>>
  /\ current_confidences = <<>>
  /\ word_count = <<>>
  /\ processing_thread = 0
  /\ stop_event = FALSE
  /\ result_callback = callback
  /\ result_queue = <<>>
  /\ tpc = [t \in Threads |-> "none"]
  /\ todo = [t \in Threads |-> <<>>]
  /\ routed = [t \in Threads |-> None]
  /\ pending = [t \in Threads |-> None]
  /\ cpc = "constructing"
  /\ rec = [l \in Langs |-> [utt |-> 1, n |-> 0]]
  /\ handed = [l \in Langs |-> <<>>]
  /\ writers = {}
  /\ nframes = 0
  /\ logged = 0
  /\ emitted = [t \in Threads |-> <<>>]
  /\ ncmd = 0
  /\ upd = [t \in Threads |-> None]
  /\ returned = None
  /\ committed = {<<Unknown, 0>>}
  /\ nadd = 0

\* _load_language_models (lines 221-258): a language whose path is missing
\* or whose model does not load is passed over; no model at all raises
LoadLanguageModels ==
  /\ cpc = "constructing"
  /\ models' = {l \in Langs : installed[l] \in {"norecognizer", "ok"}}
  /\ cpc' = IF models' = {} THEN "failed" ELSE "recognizers"
  /\ UNCHANGED <<recognizers, active_languages, language_scores,
                 current_detected_language, detection_confidence, override>>
  /\ UNCHANGED <<ctlrest, ncmd, ldvars>>
  /\ UNCHANGED <<audvars, appvars, cpvars>>
  /\ Log({"language", "model_path"}
         \cup (IF \E l \in Langs : installed[l] = "corrupt" THEN {"error"} ELSE {}))

\* an _initialize_recognizers that sets up the tracking of every model
InitializeRecognizersTrackingAll ==
  /\ cpc = "recognizers"
  /\ recognizers' = ListOf({l \in models : installed[l] = "ok"})
  /\ current_sentences' = [l \in models |-> EmptyText]
  /\ current_confidences' = [l \in models |-> <<>>]
  /\ word_count' = [l \in models |-> 0]
  /\ cpc' = IF recognizers' = <<>> THEN "failed" ELSE "idle"
  /\ UNCHANGED <<models, active_languages, language_scores,
                 current_detected_language, detection_confidence, override>>
  /\ UNCHANGED <<processing_thread, stop_event, result_callback, installed,
                 result_queue, tpc, todo, routed, pending, rec, handed,
                 writers, nframes, logged, emitted, ncmd, ldvars>>
  /\ UNCHANGED <<audvars, appvars, cpvars>>
  /\ Log((IF recognizers' # <<>> THEN {"language"} ELSE {})
         \cup (IF \E l \in models : installed[l] = "norecognizer"
               THEN {"language", "error"} ELSE {}))

\* _initialize_recognizers (lines 260-284): a model whose recognizer cannot
\* be made is passed over; no recognizer at all raises
InitializeRecognizers ==
  /\ cpc = "recognizers"
  /\ recognizers' = ListOf({l \in models : installed[l] = "ok"})
  /\ current_sentences' = [l \in Range(recognizers') |-> EmptyText]
  /\ current_confidences' = [l \in Range(recognizers') |-> <<>>]
  /\ word_count' = [l \in Range(recognizers') |-> 0]
  /\ cpc' = IF recognizers' = <<>> THEN "failed" ELSE "idle"
  /\ UNCHANGED <<models, active_languages, language_scores,
                 current_detected_language, detection_confidence, override>>
  /\ UNCHANGED <<processing_thread, stop_event, result_callback, installed,
                 result_queue, tpc, todo, routed, pending, rec, handed,
                 writers, nframes, logged, emitted, ncmd, ldvars>>
  /\ UNCHANGED <<audvars, appvars, cpvars>>
  /\ Log((IF recognizers' # <<>> THEN {"language"} ELSE {})
         \cup (IF \E l \in models : installed[l] = "norecognizer"
               THEN {"language", "error"} ELSE {}))

\* ------------------------------------------------------ specifications
\* SpeechRecognitionEngine.__init__ (lines 180-210, 262-284) with the
\* models of `loaded` and LanguageDetector.__init__ (lines 19-27)
EngineInit(loaded, callback) ==
  /\ models = loaded
  /\ recognizers = ListOf(loaded)
  /\ active_languages = {"en", "es"}
  /\ language_scores = [l \in Langs |-> <<>>]
  /\ current_detected_language = Unknown
  /\ detection_confidence = 0
  /\ override = "none"
  /\ current_sentences = [l \in loaded |-> EmptyText]
  /\ current_confidences = [l \in loaded |-> <<>>]
  /\ word_count = [l \in loaded |-> 0]
  /\ processing_thread = 0
  /\ stop_event = FALSE
  /\ result_callback = callback
  /\ installed = [l \in Langs |-> IF l \in loaded THEN "ok" ELSE "missing"]
  /\ result_queue = <<>>
  /\ tpc = [t \in Threads |-> "none"]
  /\ todo = [t \in Threads |-> <<>>]
  /\ routed = [t \in Threads |-> None]
  /\ pending = [t \in Threads |-> None]
  /\ cpc = "idle"
  /\ rec = [l \in Langs |-> [utt |-> 1, n |-> 0]]
  /\ handed = [l \in Langs |-> <<>>]
  /\ writers = {}
  /\ nframes = 0
  /\ logged = 0
  /\ emitted = [t \in Threads |-> <<>>]
  /\ ncmd = 0
  /\ upd = [t \in Threads |-> None]
  /\ returned = None
  /\ committed = {<<Unknown, 0>>}
  /\ nadd = 0

\* the dispatch thread's steps, for the recognizer outcomes given
DispatchOf(t, grow, shapes) ==
  \/ LoopExit(t)
  \/ ReadDetected(t, MaxFrames)
  \/ RouteFrame(t)
  \/ RouteFallback(t)
  \/ NextLanguage(t)
  \/ AcceptWaveform(t, grow, shapes)
  \/ WriteDetected(t)
  \/ WriteConfidence(t)
  \/ ResetTracking(t)
  \/ NotifyFinal(t)
  \/ ReadPartial(t)
  \/ NotifyPreview(t)

Dispatch(grow, shapes) == \E t \in Threads : DispatchOf(t, grow, shapes)

\* ------------------------------------------------------ the audio manager
\* self.stream = None
NoStream == -1

\* AudioManager.__init__ (lines 33-62)
AudioInit ==
  /\ audio_queue = <<>>
  /\ stream = NoStream
  /\ is_recording = FALSE
  /\ current_device_index = DefaultDevice
  /\ areturned = None
  /\ session = "never"
  /\ nopen = 0
  /\ ncap = 0
  /\ got = <<>>
  /\ naud = 0

\* queue.Queue() (line 42) has no maxsize: put (line 183) appends, always
Put(q, frame) == Append(q, frame)

\* start_stream (lines 132-161) for the device given, held being the stream
\* the manager holds: what it returns and leaves; opens says whether
\* audio.open and stream.start_stream go through
StreamStarted(held, recording, device, opens) ==
  IF recording
  THEN [value |-> TRUE, stream |-> held, is_recording |-> TRUE, opened |-> 0]
  ELSE IF opens
       THEN [value |-> TRUE, stream |-> device, is_recording |-> TRUE,
             opened |-> 1]
       ELSE [value |-> FALSE, stream |-> held, is_recording |-> FALSE,
             opened |-> 0]

\* the call of the audio manager op(arg) that returned value
AudioCall(op, arg, value) == [op |-> op, arg |-> arg, value |-> value]

\* start_stream (lines 132-161)
StartStream(opens) ==
  /\ naud < MaxAudioOps
  /\ naud' = naud + 1
  /\ current_device_index' = current_device_index
  /\ LET after == StreamStarted(stream, is_recording, current_device_index,
                                opens)
     IN /\ stream' = after.stream
        /\ is_recording' = after.is_recording
        /\ nopen' = nopen + after.opened
        /\ areturned' = AudioCall("start_stream", <<>>, after.value)
        /\ session' = IF after.value THEN "selecting" ELSE "other"
  /\ UNCHANGED <<audio_queue, ncap, got>>
  /\ UNCHANGED <<appvars, cpvars, detvars, engvars, ldvars>>
  /\ Log(IF is_recording THEN {}
         ELSE IF opens THEN {"device"} ELSE {"error"})

\* stop_stream (lines 163-175)
StopStream ==
  /\ naud < MaxAudioOps
  /\ naud' = naud + 1
  /\ stream' = NoStream
  /\ is_recording' = FALSE
  /\ areturned' = AudioCall("stop_stream", <<>>, "None")
  /\ session' = "other"
  /\ UNCHANGED <<audio_queue, current_device_index, nopen, ncap, got>>
  /\ UNCHANGED <<appvars, cpvars, detvars, engvars, ldvars, fsvars>>

\* set_device (lines 111-130), with the stop_stream and start_stream it calls
SetDevice(device_index, opens) ==
  /\ naud < MaxAudioOps
  /\ naud' = naud + 1
  /\ IF device_index = current_device_index
     THEN /\ areturned' = AudioCall("set_device", device_index, TRUE)
          /\ UNCHANGED <<stream, is_recording, current_device_index, nopen>>
     ELSE IF device_index \notin AvailableDevices
     THEN /\ areturned' = AudioCall("set_device", device_index, FALSE)
          /\ UNCHANGED <<stream, is_recording, current_device_index, nopen>>
     ELSE /\ current_device_index' = device_index
          /\ IF is_recording
             THEN LET after == StreamStarted(NoStream, FALSE, device_index,
                                             opens)
                  IN /\ stream' = after.stream
                     /\ is_recording' = after.is_recording
                     /\ nopen' = nopen + after.opened
                     /\ areturned' =
                          AudioCall("set_device", device_index, after.value)
             ELSE /\ stream' = NoStream
                  /\ is_recording' = FALSE
                  /\ nopen' = nopen
                  /\ areturned' = AudioCall("set_device", device_index, TRUE)
  /\ session' = session
  /\ UNCHANGED <<audio_queue, ncap, got>>
  /\ UNCHANGED <<appvars, cpvars, detvars, engvars, ldvars>>
  /\ Log(IF device_index = current_device_index THEN {}
         ELSE IF device_index \notin AvailableDevices THEN {"device"}
         ELSE IF ~is_recording THEN {}
         ELSE IF opens THEN {"device"} ELSE {"error"})

\* _audio_callback (lines 177-185), called by the driver's thread while the
\* stream is active; frames are numbered as they are delivered
AudioCallback(in_data) ==
  /\ stream # NoStream
  /\ ncap < MaxCaptured
  /\ ncap' = ncap + 1
  /\ audio_queue' = IF in_data THEN Put(audio_queue, ncap + 1)
                    ELSE audio_queue
  /\ UNCHANGED <<stream, is_recording, current_device_index, areturned,
                 session, nopen, got, naud>>
  /\ UNCHANGED <<appvars, cpvars, detvars, engvars, ldvars, fsvars>>

\* get_audio_data (lines 194-199) when a frame is queued; on an empty queue
\* it returns None after the timeout and nothing changes
GetAudioData ==
  /\ audio_queue # <<>>
  /\ got' = Append(got, Head(audio_queue))
  /\ audio_queue' = Tail(audio_queue)
  /\ UNCHANGED <<stream, is_recording, current_device_index, areturned,
                 session, nopen, ncap, naud>>
  /\ UNCHANGED <<appvars, cpvars, detvars, engvars, ldvars, fsvars>>

\* ------------------------------------------------- the caption processor
CPInit ==
  /\ caption_history = [l \in Langs |-> <<>>]
  /\ current_previews = [l \in Langs |-> None]
  /\ confidence_threshold = DefaultConfidenceThreshold
  /\ ppc = "idle"
  /\ entry = None
  /\ snap = None
  /\ nsub = 0
  /\ nctl = 0
  /\ uttOf = [l \in Langs |-> 1]
  /\ stored = [l \in Langs |-> <<>>]
  /\ cleared = None

\* The results the recognition engine hands over: a non-empty text for a
\* language, final or not, with any number of word scores.
Results ==
  {[language |-> l, is_final |-> f, nwords |-> sh[1], confidence_scores |-> sh[2]] :
     l \in SubmitLangs, f \in BOOLEAN, sh \in Shapes}

\* process_recognition_result up to the filter loop (lines 77-99, 105-108,
\* 130-145).  thr0 is the threshold in force when the result is submitted
\* and utt the utterance the result belongs to; neither is read by the code.
BeginProcess(r, submissions) ==
  /\ ppc = "idle"
  /\ nsub < submissions
  /\ nsub' = nsub + 1
  /\ LET base == [kind |-> "Entry", language |-> r.language,
                  is_final |-> r.is_final, nwords |-> r.nwords,
                  utt |-> uttOf[r.language], thr0 |-> confidence_threshold,
                  i |-> 1]
     IN IF ~r.is_final
        THEN /\ entry' = base @@ [scores |-> r.confidence_scores,
                                  filtered_text |-> [k \in 1..r.nwords |-> k],
                                  filtered_confidences |-> r.confidence_scores]
             /\ ppc' = "preview"
        ELSE IF r.confidence_scores = <<>>
        THEN /\ entry' = base @@ [scores |-> <<>>,
                                  filtered_text |-> [k \in 1..r.nwords |-> k],
                                  filtered_confidences |-> <<>>]
             /\ ppc' = "append"
        ELSE /\ entry' = base @@ [scores |-> AlignScores(r.nwords, r.confidence_scores),
                                  filtered_text |-> <<>>,
                                  filtered_confidences |-> <<>>]
             /\ ppc' = "filter"
  /\ UNCHANGED <<caption_history, current_previews, confidence_threshold,
                 snap, nctl, uttOf, stored, cleared>>
  /\ UNCHANGED <<detvars, engvars, ldvars, audvars, appvars>>
  /\ Log(IF r.is_final /\ r.confidence_scores # <<>> /\ Len(r.confidence_scores) # r.nwords
         THEN {"word_count", "score_count"} ELSE {})

\* one iteration of the filter loop (lines 147-150); the threshold is read
\* from the object in every iteration
KeepWordUnsetThreshold(confidence, threshold) ==
  confidence >= (IF threshold = 0 THEN DefaultConfidenceThreshold ELSE threshold)

KeepWord(confidence, threshold) == confidence >= threshold

FilterWord ==
  /\ ppc = "filter"
  /\ IF entry.i > entry.nwords
     THEN /\ ppc' = "append"
          /\ entry' = entry
     ELSE /\ ppc' = "filter"
          /\ entry' =
               IF KeepWord(entry.scores[entry.i], confidence_threshold)
               THEN [entry EXCEPT
                       !.filtered_text = Append(@, entry.i),
                       !.filtered_confidences = Append(@, entry.scores[entry.i]),
                       !.i = @ + 1]
               ELSE [entry EXCEPT !.i = @ + 1]
  /\ UNCHANGED <<caption_history, current_previews, confidence_threshold,
                 snap, nsub, nctl, uttOf, stored, cleared>>
  /\ UNCHANGED <<detvars, engvars, ldvars, audvars, appvars, fsvars>>

\* the CaptionEntry that is stored: the entry without the loop's locals
Stored(e) ==
  [kind |-> "Entry", language |-> e.language, is_final |-> e.is_final,
   nwords |-> e.nwords, utt |-> e.utt,
   filtered_text |-> e.filtered_text,
   filtered_confidences |-> e.filtered_confidences]

\* an entry is identified by its language, its utterance and is_final
Ident(e) == IF e = None THEN None ELSE [utt |-> e.utt, is_final |-> e.is_final]

Idents(q) == [k \in 1..Len(q) |-> Ident(q[k])]

\* lines 102-104: the first critical section of a final result
AppendHistory ==
  /\ ppc = "append"
  /\ ppc' = "preview"
  /\ IF entry.filtered_text # <<>>
     THEN /\ caption_history' =
               [caption_history EXCEPT ![entry.language] =
                  DequeAppend(@, Stored(entry), HistoryLimit)]
          /\ stored' = [stored EXCEPT ![entry.language] = Append(@, entry.utt)]
     ELSE UNCHANGED <<caption_history, stored>>
  /\ UNCHANGED <<current_previews, confidence_threshold, entry, snap, nsub, nctl, uttOf,
                 cleared>>
  /\ UNCHANGED <<detvars, engvars, ldvars, audvars, appvars, fsvars>>

\* the preview cleared only by a final result that was stored
UpdatePreviewOnlyIfStored ==
  /\ ppc = "preview"
  /\ ppc' = "idle"
  /\ entry' = None
  /\ current_previews' =
       [current_previews EXCEPT ![entry.language] =
          IF entry.is_final
          THEN (IF entry.filtered_text # <<>> THEN None ELSE @)
          ELSE Stored(entry)]
  /\ uttOf' = IF entry.is_final
              THEN [uttOf EXCEPT ![entry.language] = @ + 1]
              ELSE uttOf
  /\ UNCHANGED <<caption_history, confidence_threshold, snap, nsub, nctl, stored,
                 cleared>>
  /\ UNCHANGED <<detvars, engvars, ldvars, audvars, appvars, fsvars>>

\* lines 111-117: the second critical section, and the return
UpdatePreview ==
  /\ ppc = "preview"
  /\ ppc' = "idle"
  /\ entry' = None
  /\ current_previews' =
       [current_previews EXCEPT ![entry.language] =
          IF entry.is_final THEN None ELSE Stored(entry)]
  /\ uttOf' = IF entry.is_final
              THEN [uttOf EXCEPT ![entry.language] = @ + 1]
              ELSE uttOf
  /\ UNCHANGED <<caption_history, confidence_threshold, snap, nsub, nctl, stored,
                 cleared>>
  /\ UNCHANGED <<detvars, engvars, ldvars, audvars, appvars, fsvars>>

\* get_all_captions_for_display (lines 188-192), on the display thread
GetAllCaptionsForDisplay(l) ==
  /\ nctl < MaxControlOps
  /\ nctl' = nctl + 1
  /\ snap' = [kind |-> "Snap", language |-> l,
              history |-> Idents(caption_history[l]),
              preview |-> Ident(current_previews[l])]
  /\ UNCHANGED <<caption_history, current_previews, confidence_threshold,
                 ppc, entry, nsub, uttOf, stored, cleared>>
  /\ UNCHANGED <<detvars, engvars, ldvars, audvars, appvars, fsvars>>

\* a clear_history that leaves the previews
ClearHistoryKeepingPreviews(l) ==
  /\ nctl < MaxControlOps
  /\ nctl' = nctl + 1
  /\ IF l = ""
     THEN /\ caption_history' = [x \in Langs |-> <<>>]
          /\ stored' = [x \in Langs |-> <<>>]
     ELSE IF l \in DOMAIN caption_history
     THEN /\ caption_history' = [caption_history EXCEPT ![l] = <<>>]
          /\ stored' = [stored EXCEPT ![l] = <<>>]
     ELSE UNCHANGED <<caption_history, stored>>
  /\ cleared' = [kind |-> "Clear", language |-> l, call |-> nctl']
  /\ UNCHANGED <<current_previews, confidence_threshold, ppc, entry, snap, nsub, uttOf>>
  /\ UNCHANGED <<detvars, engvars, ldvars, audvars, appvars>>
  /\ Log(IF l = "" THEN {} ELSE {"language"})

\* clear_history (lines 201-214); language "" stands for None (all)
ClearHistory(l) ==
  /\ nctl < MaxControlOps
  /\ nctl' = nctl + 1
  /\ IF l = ""
     THEN /\ caption_history' = [x \in Langs |-> <<>>]
          /\ current_previews' = [x \in Langs |-> None]
          /\ stored' = [x \in Langs |-> <<>>]
     ELSE IF l \in DOMAIN caption_history
     THEN /\ caption_history' = [caption_history EXCEPT ![l] = <<>>]
          /\ current_previews' = [current_previews EXCEPT ![l] = None]
          /\ stored' = [stored EXCEPT ![l] = <<>>]
     ELSE UNCHANGED <<caption_history, current_previews, stored>>
  /\ cleared' = [kind |-> "Clear", language |-> l, call |-> nctl']
  /\ UNCHANGED <<confidence_threshold, ppc, entry, snap, nsub, uttOf>>
  /\ UNCHANGED <<detvars, engvars, ldvars, audvars, appvars>>
  /\ Log(IF l = "" THEN {} ELSE {"language"})

\* an update of the threshold that drops the previews
UpdateThresholdDroppingPreviews(t) ==
  /\ nctl < MaxControlOps
  /\ nctl' = nctl + 1
  /\ confidence_threshold' = IF 0 <= t /\ t <= 100 THEN t ELSE confidence_threshold
  /\ current_previews' = [l \in Langs |-> None]
  /\ UNCHANGED <<caption_history, ppc, entry, snap, nsub, uttOf, stored,
                 cleared>>
  /\ UNCHANGED <<detvars, engvars, ldvars, audvars, appvars>>
  /\ Log({"threshold"})

\* update_confidence_threshold (lines 371-377): no lock is taken
UpdateConfidenceThreshold(t) ==
  /\ nctl < MaxControlOps
  /\ nctl' = nctl + 1
  /\ confidence_threshold' = IF 0 <= t /\ t <= 100 THEN t ELSE confidence_threshold
  /\ UNCHANGED <<caption_history, current_previews, ppc, entry, snap, nsub,
                 uttOf, stored, cleared>>
  /\ UNCHANGED <<detvars, engvars, ldvars, audvars, appvars>>
  /\ Log({"threshold"})

\* get_text_color_for_confidence (lines 268-285), confidences in hundredths
GetTextColorForConfidence(confidence) ==
  IF confidence >= 85 THEN "green"
  ELSE IF confidence >= 65 THEN "yellow"
  ELSE IF confidence >= 50 THEN "red"
  ELSE "white"

\* CaptionDisplay._get_color_for_confidence (ui_manager.py, lines 176-185)
GetColorForConfidence(confidence) ==
  IF confidence >= 85 THEN "green"
  ELSE IF confidence >= 65 THEN "yellow"
  ELSE IF confidence >= 50 THEN "red"
  ELSE "white"

\* CaptionDisplay._insert_colored_text (ui_manager.py, lines 152-158): the
\* colour of word i of a caption shown with its confidence_scores
InsertedColor(confidence_scores, i) ==
  IF confidence_scores # <<>> /\ i <= Len(confidence_scores)
  THEN GetColorForConfidence(confidence_scores[i])
  ELSE "white"

\* lines 239-241: the filtered confidences of the entries, one after the other
RECURSIVE AllConfidences(_)
AllConfidences(history) ==
  IF history = <<>> THEN <<>>
  ELSE Head(history).filtered_confidences \o AllConfidences(Tail(history))

\* get_confidence_statistics (lines 226-266) of a history as read under the
\* lock; the average is the sum over the number of confidences (the
\* rounding to three digits is left out).  The two early returns have no
\* 'total_words'.
GetConfidenceStatistics(history) ==
  LET all_confidences == AllConfidences(history)
  IN IF history = <<>>
     THEN [total_captions |-> 0, average_confidence |-> <<0, 1>>,
           high_confidence_count |-> 0, medium_confidence_count |-> 0,
           low_confidence_count |-> 0]
     ELSE IF all_confidences = <<>>
     THEN [total_captions |-> Len(history), average_confidence |-> <<0, 1>>,
           high_confidence_count |-> 0, medium_confidence_count |-> 0,
           low_confidence_count |-> 0]
     ELSE [total_captions |-> Len(history),
           average_confidence |-> <<Sum(all_confidences), Len(all_confidences)>>,
           high_confidence_count |-> Len(SelectSeq(all_confidences, LAMBDA c : c >= 85)),
           medium_confidence_count |->
             Len(SelectSeq(all_confidences, LAMBDA c : 65 <= c /\ c < 85)),
           low_confidence_count |->
             Len(SelectSeq(all_confidences, LAMBDA c : c < 65)),
           total_words |-> Len(all_confidences)]

CPNext ==
  \/ \E r \in Results : BeginProcess(r, MaxSubmissions)
  \/ FilterWord
  \/ AppendHistory
  \/ UpdatePreview
  \/ \E l \in SubmitLangs : GetAllCaptionsForDisplay(l)
  \/ \E l \in ClearInputs : ClearHistory(l)
  \/ \E t \in ThresholdInputs : UpdateConfidenceThreshold(t)

\* the caption processor alone, the engine constructed and not started
InitCP == CPInit /\ AudioInit /\ LoggingInit("off") /\ AppInit /\ EngineInit(Langs, TRUE)

SpecCP == InitCP /\ [][CPNext]_vars

\* The detector and the routing: the engine runs, Finals arrive with
\* average 0.7, and the control thread
\* forces, resets and selects languages.  Nobody stops the engine and every
\* utterance ends in the frame it began in, so the loop neither exits nor
\* builds previews here.
InitDet == CPInit /\ AudioInit /\ LoggingInit("off") /\ AppInit /\ \E loaded \in LoadedChoices : EngineInit(loaded, TRUE)

DetNext ==
  \/ StartRecognition
  \/ \E t \in Threads :
       \/ ReadDetected(t, MaxDetFrames)
       \/ RouteFrame(t)
       \/ RouteFallback(t)
       \/ NextLanguage(t)
       \/ AcceptWaveform(t, {}, DetShapes)
       \/ WriteDetected(t)
       \/ WriteConfidence(t)
       \/ ResetTracking(t)
       \/ NotifyFinal(t)
       \/ ReadPartial(t)
  \/ \E l \in ForceInputs : ForceLanguageDetection(l)
  \/ ForceConfidence
  \/ ResetLanguageDetection
  \/ ResetDetected
  \/ ResetConfidence
  \/ ResetWindows
  \/ \E ls \in ActiveInputs : SetActiveLanguages(ls)

SpecDet == InitDet /\ [][DetNext]_vars

\* The threads of the engine: the control thread starts, stops, resets and
\* shuts down while utterances grow and end.
InitEng == CPInit /\ AudioInit /\ LoggingInit("off") /\ AppInit /\ \E callback \in BOOLEAN : EngineInit({"en"}, callback)

EngNext ==
  \/ StartRecognition
  \/ StopRecognition
  \/ Shutdown
  \/ JoinReturns
  \/ ShutdownClear
  \/ \E l \in {"", "en"} : ResetRecognition(l)
  \/ Dispatch(GrowTo, EngShapes)

SpecEng == InitEng /\ [][EngNext]_vars

\* The same, every thread that is in the loop being scheduled again and
\* again: a thread that can take a step of the loop takes one.
InitEngLive == CPInit /\ AudioInit /\ LoggingInit("off") /\ AppInit /\ \E callback \in BOOLEAN : EngineInit({"en"}, callback)

EngLiveNext ==
  \/ StartRecognition
  \/ StopRecognition
  \/ Shutdown
  \/ JoinReturns
  \/ ShutdownClear
  \/ \E l \in {"", "en"} : ResetRecognition(l)
  \/ Dispatch(GrowTo, EngShapes)

SpecEngLive ==
  /\ InitEngLive
  /\ [][EngLiveNext]_vars
  /\ \A t \in Threads : WF_vars(DispatchOf(t, GrowTo, EngShapes))


\* The loop with recognizers and a callback that fail: two languages are
\* routed every frame, the recognizer of a language returns what is not
\* JSON, the callback raises, and the engine is started and stopped.
InitErr == CPInit /\ AudioInit /\ LoggingInit("off") /\ AppInit /\ EngineInit({"en", "es"}, TRUE)

ErrNext ==
  \/ StartRecognition
  \/ StopRecognition
  \/ JoinReturns
  \/ \E t \in Threads : LoopExit(t)
  \/ \E t \in Threads : ReadDetected(t, MaxErrFrames)
  \/ \E t \in Threads : RouteFrame(t)
  \/ \E t \in Threads : RouteFallback(t)
  \/ \E t \in Threads : NextLanguage(t)
  \/ \E t \in Threads : AcceptWaveform(t, {1}, EngShapes)
  \/ \E t \in Threads : WriteDetected(t)
  \/ \E t \in Threads : WriteConfidence(t)
  \/ \E t \in Threads : ResetTracking(t)
  \/ \E t \in Threads : NotifyFinal(t)
  \/ \E t \in Threads : ReadPartial(t)
  \/ \E t \in Threads : NotifyPreview(t)
  \/ \E t \in Threads : ResultMalformed(t)
  \/ \E t \in Threads : PartialMalformed(t)
  \/ \E t \in Threads : CallbackFails(t)

SpecErr == InitErr /\ [][ErrNext]_vars

\* The construction of the engine on every machine: each language has no
\* model, a model that does not load, a model without recognizer, or both.
InitConstruction ==
  CPInit /\ AudioInit /\ LoggingInit("off") /\ AppInit /\ \E machine \in [Langs -> Installations] :
                            Constructing(machine, TRUE)

ConstructionNext ==
  \/ LoadLanguageModels
  \/ InitializeRecognizers

SpecConstruction == InitConstruction /\ [][ConstructionNext]_vars

\* The detector and the language commands called by one thread, one call
\* after the other, the engine not started: what the test scripts do.
InitLD == CPInit /\ AudioInit /\ LoggingInit("off") /\ AppInit /\ \E loaded \in DetectorLoaded : EngineInit(loaded, TRUE)

\* LanguageDetector.add_result (lines 29-50), called directly
DetectorAddResult(language, confidence_scores, adds) ==
  /\ cpc = "idle"
  /\ nadd < adds
  /\ nadd' = nadd + 1
  /\ AddResult(language, confidence_scores)
  /\ returned' = Call("add_result", <<language, confidence_scores>>, "None")
  /\ UNCHANGED <<models, recognizers, active_languages, override>>
  /\ UNCHANGED <<engvars, upd, committed>>
  /\ UNCHANGED <<fsvars, audvars, appvars, cpvars>>

LDNext ==
  \/ \E a \in AddInputs : DetectorAddResult(a[1], a[2], MaxAdds)
  \/ \E l \in ForceInputs : ForceLanguageDetection(l)
  \/ ForceConfidence
  \/ ResetLanguageDetection
  \/ ResetDetected
  \/ ResetConfidence
  \/ ResetWindows
  \/ \E ls \in DetectorActiveInputs : SetActiveLanguages(ls)

SpecLD == InitLD /\ [][LDNext]_vars

\* The audio manager: the driver delivers frames, the loop takes them, and
\* the control thread starts and stops the stream and selects devices.
InitAud == CPInit /\ AudioInit /\ LoggingInit("off") /\ AppInit /\ EngineInit(Langs, TRUE)

AudNext ==
  \/ \E opens \in BOOLEAN : StartStream(opens)
  \/ StopStream
  \/ \E i \in DeviceInputs : \E opens \in BOOLEAN : SetDevice(i, opens)
  \/ \E in_data \in BOOLEAN : AudioCallback(in_data)
  \/ GetAudioData

SpecAud == InitAud /\ [][AudNext]_vars

\* The caption processor while the control thread gives commands to the
\* engine and the audio manager: captions are submitted and cleared, the
\* threshold is set, a language is forced, the detection reset, languages
\* and devices selected.
FrameResults ==
  {[language |-> "en", is_final |-> f, nwords |-> 1, confidence_scores |-> <<70>>] :
     f \in BOOLEAN}

InitFrame == CPInit /\ AudioInit /\ LoggingInit("off") /\ AppInit /\ EngineInit(Langs, TRUE)

FrameNext ==
  \/ \E r \in FrameResults : BeginProcess(r, MaxFrameSubmissions)
  \/ FilterWord
  \/ AppendHistory
  \/ UpdatePreview
  \/ ClearHistory("")
  \/ UpdateConfidenceThreshold(0)
  \/ ForceLanguageDetection("fr")
  \/ ForceConfidence
  \/ ResetLanguageDetection
  \/ ResetConfidence
  \/ ResetWindows
  \/ SetActiveLanguages(<<"es", "fr", "de">>)
  \/ ResetDetected
  \/ StartStream(TRUE)
  \/ \E opens \in BOOLEAN : SetDevice(1, opens)

SpecFrame == InitFrame /\ [][FrameNext]_vars

\* --------------------------------------------------------- the application
\* LiveCaptioner (live_captioner_modular.py).  run_application calls
\* start_application (lines 124-162), the user interface runs until it is
\* closed or fails (lines 199-212), and the finally clause calls _cleanup.
\* The class defines _cleanup twice (lines 348-376 and 378-406); the second
\* definition is the one the class has.

\* start_application up to start_stream (lines 134-140)
RunStartStream(opens) ==
  /\ mpc = "constructed"
  /\ LET after == StreamStarted(stream, is_recording, current_device_index,
                                opens)
     IN /\ stream' = after.stream
        /\ is_recording' = after.is_recording
        /\ nopen' = nopen + after.opened
        /\ areturned' = AudioCall("start_stream", <<>>, after.value)
        /\ session' = IF after.value THEN "selecting" ELSE "other"
        /\ mpc' = IF after.value THEN "start_recognition" ELSE "cleanup"
  /\ UNCHANGED <<audio_queue, current_device_index, ncap, got, naud, is_running>>
  /\ UNCHANGED <<cpvars, detvars, engvars, ldvars>>
  /\ Log(IF opens THEN {"device"} ELSE {"error"})

\* start_application from start_recognition on (lines 143-158, 286-297)
RunStartRecognition ==
  /\ mpc = "start_recognition"
  /\ processing_thread = 0
  /\ tpc[1] = "none"
  /\ stop_event' = FALSE
  /\ processing_thread' = 1
  /\ tpc' = [tpc EXCEPT ![1] = "top"]
  /\ is_running' = TRUE
  /\ mpc' = "ui"
  /\ UNCHANGED <<detvars, current_sentences, current_confidences, word_count,
                 result_callback, installed, result_queue, todo, routed, pending, cpc,
                 rec, handed, writers, nframes, logged, emitted, ncmd>>
  /\ UNCHANGED <<fsvars, audvars, cpvars, ldvars>>

\* lines 194-212: initialize_ui fails, or the main loop returns after the
\* window was closed or a signal came, or it raises
UiEnds ==
  /\ mpc = "ui"
  /\ mpc' = "cleanup"
  /\ UNCHANGED is_running
  /\ UNCHANGED <<cpvars, detvars, engvars, ldvars, audvars, fsvars>>

\* _cleanup up to stop_recognition (lines 383-384, 164-173, 299-303)
CleanupStopRecognition ==
  /\ mpc = "cleanup"
  /\ cpc = "idle"
  /\ IF ~is_running
     THEN /\ mpc' = "thread_check"
          /\ UNCHANGED <<stop_event, cpc>>
     ELSE /\ mpc' = "stop_stream"
          /\ IF processing_thread # 0
             THEN /\ stop_event' = TRUE
                  /\ cpc' = "join"
             ELSE UNCHANGED <<stop_event, cpc>>
  /\ UNCHANGED <<detvars, current_sentences, current_confidences, word_count,
                 processing_thread, result_callback, installed, result_queue, tpc, todo,
                 routed, pending, rec, handed, writers, nframes, logged, emitted, ncmd>>
  /\ UNCHANGED is_running
  /\ UNCHANGED <<fsvars, audvars, cpvars, ldvars>>

\* stop_application after stop_recognition has returned (lines 175-181,
\* 163-175)
CleanupStopStream ==
  /\ mpc = "stop_stream"
  /\ cpc = "idle"
  /\ stream' = NoStream
  /\ is_recording' = FALSE
  /\ areturned' = AudioCall("stop_stream", <<>>, "None")
  /\ session' = "other"
  /\ is_running' = FALSE
  /\ mpc' = "thread_check"
  /\ UNCHANGED <<audio_queue, current_device_index, nopen, ncap, got, naud>>
  /\ UNCHANGED <<cpvars, detvars, engvars, ldvars, fsvars>>

\* line 387: self.processing_thread is read, an attribute that LiveCaptioner
\* never assigns; the AttributeError leaves _cleanup and run_application
\* (main, lines 495-497, prints it and exits with 1)
CleanupRaises ==
  /\ mpc = "thread_check"
  /\ mpc' = "left"
  /\ UNCHANGED is_running
  /\ UNCHANGED <<cpvars, detvars, engvars, ldvars, audvars, fsvars>>

\* The application from run_application to its end, the loop of the engine
\* taking frames meanwhile.
InitApp == CPInit /\ AudioInit /\ LoggingInit("off") /\ AppInit /\ EngineInit({"en"}, TRUE)

AppNext ==
  \/ \E opens \in BOOLEAN : RunStartStream(opens)
  \/ RunStartRecognition
  \/ UiEnds
  \/ CleanupStopRecognition
  \/ JoinReturns
  \/ CleanupStopStream
  \/ CleanupRaises
  \/ \E t \in Threads : LoopExit(t)
  \/ \E t \in Threads : ReadDetected(t, MaxAppFrames)
  \/ \E t \in Threads : RouteFrame(t)
  \/ \E t \in Threads : RouteFallback(t)
  \/ \E t \in Threads : NextLanguage(t)
  \/ \E t \in Threads : AcceptWaveform(t, GrowTo, EngShapes)
  \/ \E t \in Threads : WriteDetected(t)
  \/ \E t \in Threads : WriteConfidence(t)
  \/ \E t \in Threads : ResetTracking(t)
  \/ \E t \in Threads : NotifyFinal(t)
  \/ \E t \in Threads : ReadPartial(t)
  \/ \E t \in Threads : NotifyPreview(t)

SpecApp == InitApp /\ [][AppNext]_vars

\* What reaches the files: the log file is off, or open from INFO or from
\* DEBUG on; captions are submitted, cleared and filtered with a new
\* threshold, the loop of the engine routes a frame to a
\* recognizer whose answers may not be JSON, and the configuration is saved.
\* The callback of the application catches what it raises (lines 248-274).
LogLevels == {"off", "INFO", "DEBUG"}

\* an English Final of two words with one score, and a preview
DiskResults ==
  {[language |-> "en", is_final |-> TRUE, nwords |-> 2, confidence_scores |-> <<70>>],
   [language |-> "en", is_final |-> FALSE, nwords |-> 1, confidence_scores |-> <<70>>]}

InitDisk ==
  /\ CPInit
  /\ AudioInit
  /\ \E level \in LogLevels : LoggingInit(level)
  /\ AppInit
  /\ EngineInit({"en"}, TRUE)

DiskNext ==
  \/ \E r \in DiskResults : BeginProcess(r, MaxDiskSubmissions)
  \/ FilterWord
  \/ AppendHistory
  \/ UpdatePreview
  \/ ClearHistory("en")
  \/ UpdateConfidenceThreshold(0)
  \/ SaveConfiguration
  \/ StartRecognition
  \/ \E t \in Threads : ReadDetected(t, MaxErrFrames)
  \/ \E t \in Threads : RouteFrame(t)
  \/ \E t \in Threads : RouteFallback(t)
  \/ \E t \in Threads : NextLanguage(t)
  \/ \E t \in Threads : AcceptWaveform(t, {1}, EngShapes)
  \/ \E t \in Threads : WriteDetected(t)
  \/ \E t \in Threads : WriteConfidence(t)
  \/ \E t \in Threads : ResetTracking(t)
  \/ \E t \in Threads : NotifyFinal(t)
  \/ \E t \in Threads : ReadPartial(t)
  \/ \E t \in Threads : NotifyPreview(t)
  \/ \E t \in Threads : ResultMalformed(t)
  \/ \E t \in Threads : PartialMalformed(t)

SpecDisk == InitDisk /\ [][DiskNext]_vars

\* The detector fed until a window runs over, and reset.
InitWin == CPInit /\ AudioInit /\ LoggingInit("off") /\ AppInit /\ \E loaded \in DetectorLoaded : EngineInit(loaded, TRUE)

WinNext ==
  \/ \E a \in WindowInputs : DetectorAddResult(a[1], a[2], MaxWindowAdds)
  \/ ResetLanguageDetection
  \/ ResetConfidence
  \/ ResetWindows

SpecWin == InitWin /\ [][WinNext]_vars

\* ------------------------------------------------ claims: the processor

\* C1: a snapshot taken while a Final is being submitted never shows a
\* history that already holds the Final together with the preview of the
\* same utterance, which the Final has yet to clear.
SnapshotNeverMixed ==
  snap # None =>
    ~ /\ snap.preview # None
      /\ \E k \in 1..Len(snap.history) : snap.history[k].utt = snap.preview.utt

\* C6: no language's history ever holds more than history_limit entries.
HistoryWithinLimit ==
  \A l \in Langs : Len(caption_history[l]) <= HistoryLimit

\* a Final has been stored on top of a full history
HistoryOverflowed ==
  \E l \in Langs : /\ Len(stored[l]) > HistoryLimit
                    /\ Len(caption_history[l]) = HistoryLimit

UttsOf(q) == [k \in 1..Len(q) |-> q[k].utt]

\* C7: a history is a FIFO: it holds the most recent history_limit stored
\* Finals of its language, in the order in which they were submitted.
HistoryIsFifo ==
  \A l \in Langs :
    /\ UttsOf(caption_history[l]) = Last(stored[l], HistoryLimit)
    /\ \A i, j \in 1..Len(caption_history[l]) :
         i < j => caption_history[l][i].utt < caption_history[l][j].utt

\* after history_limit + 1 stored Finals the history holds the 2nd to the last
OldestEvicted ==
  \E l \in Langs : /\ Len(stored[l]) = HistoryLimit + 1
                    /\ UttsOf(caption_history[l]) = Tail(stored[l])

\* the positions of the words whose score passes the threshold, in order
Passing(scores, nwords, threshold) ==
  SelectSeq([k \in 1..nwords |-> k],
            LAMBDA k : k > Len(scores) \/ scores[k] >= threshold)

\* C8: what enters a history is final, has a non-empty filtered text, and
\* its filtered words are exactly the words of the Final whose confidence
\* is at least the one threshold that was in force when the Final was
\* submitted, in order; a preview never enters a history.
StoredFilteredAtSubmissionThreshold ==
  /\ \A l \in Langs : \A k \in 1..Len(caption_history[l]) :
        /\ caption_history[l][k].is_final
        /\ caption_history[l][k].filtered_text # <<>>
  /\ ppc = "append" =>
        /\ entry.is_final
        /\ entry.filtered_text # <<>> =>
              /\ entry.filtered_text = Passing(entry.scores, entry.nwords, entry.thr0)
              /\ \A c \in Range(entry.filtered_confidences) : c >= entry.thr0

\* C9: each language has one preview slot.  A non-final result replaces
\* the preview of its language and touches nothing else; a final result
\* sets the preview of its language to None, whatever its filtered text,
\* and lengthens the history of its language by at most one entry.
OnePreviewPerLanguage ==
  [][ /\ \A l \in Langs : current_previews'[l] = None
                            \/ current_previews'[l].kind = "Entry"
      /\ <<ppc, entry>>' # <<ppc, entry>> =>
           \* a step of process_recognition_result
           /\ ppc = "preview" =>
                /\ current_previews'[entry.language] =
                     IF entry.is_final THEN None ELSE Stored(entry)
                /\ \A l \in Langs \ {entry.language} :
                     current_previews'[l] = current_previews[l]
                /\ caption_history' = caption_history
           /\ ppc = "append" =>
                /\ entry.is_final
                /\ current_previews' = current_previews
                /\ Len(caption_history'[entry.language])
                     <= Len(caption_history[entry.language]) + 1
                /\ \A l \in Langs \ {entry.language} :
                     caption_history'[l] = caption_history[l]
           /\ ppc \in {"idle", "filter"} =>
                /\ current_previews' = current_previews
                /\ caption_history' = caption_history
           /\ (ppc = "idle" /\ ppc' = "preview") => ~entry'.is_final
    ]_vars

\* a Final whose filtered text was empty has cleared the preview of its
\* language and left the preview of another language in place
EmptyFinalClearedPreview ==
  \E l \in Langs :
    /\ nctl = 0 /\ ppc = "idle"
    /\ uttOf[l] > 1 /\ stored[l] = <<>>
    /\ current_previews[l] = None
    /\ \E l2 \in Langs \ {l} : current_previews[l2] # None

\* --------------------------------------------------- claims: the engine

\* C2: while a forced language has not been reset, the detection state is
\* that language with confidence 1.0, whatever Finals arrive.
ForcedDetectionSticks ==
  override # "none" =>
    /\ current_detected_language = override
    /\ detection_confidence = ForcedConfidence * Scale

\* C3: at most one thread is in the recognition loop, and only threads of
\* the loop have written the utterance tracking.
SingleDispatchThread ==
  /\ Cardinality({t \in Threads : IsAlive(t)}) <= 1
  /\ writers \subseteq Threads

\* C4: per language, what is handed over is ordered by utterance, and the
\* Final of an utterance comes after everything else of that utterance.
DeliveredInOrder ==
  \A l \in Langs :
    \A i, j \in 1..Len(handed[l]) :
      i < j => /\ handed[l][i].utt <= handed[l][j].utt
               /\ handed[l][i].is_final => handed[l][i].utt < handed[l][j].utt

\* how often the Final of utterance k of language l was handed over
TimesHanded(l, k) ==
  Cardinality({i \in 1..Len(handed[l]) :
                 handed[l][i].is_final /\ handed[l][i].utt = k})

\* the threads that hold the Final of utterance k of language l, not yet
\* notified
Holding(l, k) ==
  {t \in Threads : /\ pending[t] # None
                   /\ pending[t].is_final
                   /\ pending[t].language = l
                   /\ pending[t].utt = k}

\* C5: every Final a recognizer has returned is about to be notified by
\* the thread that got it, or was handed over exactly once; in queue mode
\* it is on the queue as long as the queue has not been cleared.
FinalsHandedOnce ==
  /\ \A l \in Langs :
       \A k \in 1..(rec[l].utt - 1) :
         TimesHanded(l, k) + Cardinality(Holding(l, k)) = 1
  /\ (~result_callback /\ ControlThread \notin writers) =>
       \A l \in Langs :
         \A i \in 1..Len(handed[l]) :
           \E j \in 1..Len(result_queue) : result_queue[j] = handed[l][i]

\* C5, the slow consumer: nothing was taken and three Finals of one
\* language wait on the queue.
ThreeFinalsQueued ==
  /\ ~result_callback
  /\ Len(SelectSeq(result_queue, LAMBDA r : r.is_final)) >= 3

\* what C10 says of a frame routed from state f, with the active set A
ClaimedRouting(f, R, A) ==
  \E R0 \in SUBSET (f.loaded \cup {f.detected}) :
    /\ IF f.detected = Unknown \/ f.confidence < DetectionThreshold * Scale
       THEN R0 = f.loaded
       ELSE /\ f.detected \in R0
            /\ R0 \ {f.detected} \subseteq f.loaded
            /\ Cardinality(R0 \ {f.detected}) <= 1
            /\ f.confidence >= MonitoringThreshold * Scale => R0 = {f.detected}
    /\ R = IF R0 \cap A = {} THEN A ELSE R0 \cap A

\* C10: the languages a frame goes to are the claimed routing set, for the
\* active set at the filter or for the active set at the fallback.
RoutingAsSpecified ==
  [][\A t \in Threads :
       (tpc[t] = "fallback" /\ tpc'[t] = "langs") =>
         \/ ClaimedRouting(routed[t], Range(todo'[t]), routed[t].active)
         \/ ClaimedRouting(routed[t], Range(todo'[t]), active_languages)]_vars

\* The same, for the frames during whose routing the active set is not
\* replaced.
RoutingAsSpecifiedUndisturbed ==
  [][\A t \in Threads :
       (tpc[t] = "fallback" /\ tpc'[t] = "langs"
        /\ routed[t].active = active_languages) =>
         ClaimedRouting(routed[t], Range(todo'[t]), active_languages)]_vars

\* The order of C4, as long as one thread only was ever started.
DeliveredInOrderOneThread ==
  (\A t \in Threads : t > 1 => tpc[t] = "none") => DeliveredInOrder

\* ------------------------------------------- claims: the language commands

\* C11: as long as no language command was called, the active languages are
\* exactly the loaded ones.
ActiveIsLoadedAtFirst ==
  returned = None => active_languages = models

\* C12: the set of active languages is never empty.
ActiveNeverEmpty == active_languages # {}

\* C12, a list without a loaded language was just turned down.
UnknownListTurnedDown ==
  /\ returned # None
  /\ returned.op = "set_active_languages"
  /\ returned.arg # <<>>
  /\ ValidLanguages(returned.arg) = <<>>
  /\ cpc = "idle"

\* the state of the system that the language commands act on
system == <<active_languages, language_scores, current_detected_language,
            detection_confidence, caption_history, current_previews>>

\* C13: a set_active_languages without a loaded language in its list
\* returns an error and changes nothing.
UnknownListIsAnError ==
  [][(/\ ncmd' = ncmd + 1
      /\ returned'.op = "set_active_languages"
      /\ ValidLanguages(returned'.arg) = <<>>)
     => (returned'.value = "Err" /\ UNCHANGED system)]_vars

\* C14: the steps of a set_active_languages that repeats the call before it
\* change nothing of the system.
SetActiveIdempotent ==
  [][(/\ returned' # None
      /\ returned'.op = "set_active_languages"
      /\ returned'.again)
     => UNCHANGED system]_vars

\* C14, a list with loaded languages was taken twice in a row and the second
\* call is through.
TakenTwice ==
  /\ returned # None
  /\ returned.op = "set_active_languages"
  /\ returned.again
  /\ ValidLanguages(returned.arg) # <<>>
  /\ cpc = "idle"

\* ------------------------------------------------- claims: the detector

\* no operation of the detector is under way
Quiescent ==
  /\ cpc = "idle"
  /\ \A t \in Threads : tpc[t] \notin {"detected", "confidence"}

\* C15: between the operations, a detector that reports unknown has
\* confidence 0.
UnknownHasNoConfidence ==
  (Quiescent /\ current_detected_language = Unknown) =>
    detection_confidence = 0

\* C16: between the operations, the confidence is 0 exactly when the
\* detected language is unknown, and 1.0 exactly when a language is forced.
ConfidenceTellsTheState ==
  Quiescent =>
    /\ detection_confidence = 0 <=> current_detected_language = Unknown
    /\ detection_confidence = ForcedConfidence * Scale <=> override # "none"

\* C17: a pair read by get_detected_language was once the whole state of the
\* detector, and between the operations the state is one that an operation
\* has left as a whole.
DetectorOperationsAtomic ==
  /\ \A t \in Threads :
       tpc[t] = "fallback" =>
         <<routed[t].detected, routed[t].confidence>> \in committed
  /\ Quiescent =>
       <<current_detected_language, detection_confidence>> \in committed

\* the weighted sum of a window, the oldest result with weight 1
RECURSIVE Weighted(_)
Weighted(w) ==
  IF w = <<>> THEN 0
  ELSE Weighted(SubSeq(w, 1, Len(w) - 1)) + Len(w) * w[Len(w)]

\* x is the score that C18 gives a window, in units of 1/Scale
IsScore(x, w) ==
  IF Len(w) >= 3 THEN x * ((Len(w) * (Len(w) + 1)) \div 2) = Weighted(w) * Scale
  ELSE x = 0

\* the score that C18 gives a window is x at most
ScoreAtMost(w, x) ==
  IF Len(w) >= 3 THEN Weighted(w) * Scale <= x * ((Len(w) * (Len(w) + 1)) \div 2)
  ELSE 0 <= x

TwoFinalsDetect ==
  \A l \in Langs :
    (/\ ncmd = 0
     /\ nadd = 2
     /\ Len(language_scores[l]) = 2
     /\ \A i \in 1..2 : language_scores[l][i] >= DetectionThreshold
     /\ \A l2 \in Langs \ {l} : language_scores[l2] = <<>>)
    => /\ current_detected_language = l
       /\ detection_confidence > 0
       /\ detection_confidence >= DetectionThreshold * Scale

\* C20: no window holds more than ten results; add_result with word scores
\* appends one result to the window of its language, dropping the oldest of
\* a full window, and leaves the other windows alone; add_result without
\* word scores changes neither the windows nor the detection state.
WindowsAsSpecified ==
  /\ [](\A l \in Langs : Len(language_scores[l]) <= 10)
  /\ [][nadd' = nadd + 1 =>
         LET language == returned'.arg[1]
             confidence_scores == returned'.arg[2]
             window == language_scores[language]
         IN IF confidence_scores = <<>>
            THEN UNCHANGED <<language_scores, current_detected_language,
                             detection_confidence>>
            ELSE /\ \A l \in Langs \ {language} :
                      language_scores'[l] = language_scores[l]
                 /\ language_scores'[language] =
                      Append(IF Len(window) < 10 THEN window ELSE Tail(window),
                             AvgConfidence(confidence_scores))]_vars

\* C20, the eleventh result in a row has gone into a window.
EleventhResultIn ==
  /\ ncmd = 0
  /\ nadd = 11
  /\ returned.arg[2] # <<>>
  /\ Len(language_scores["en"]) = 10

\* ------------------------------------- claims: force and reset, one caller

\* the windows of a detector that was just made
FreshWindows == [l \in Langs |-> <<>>]

\* the last two commands were force_language_detection and
\* reset_language_detection, and the reset is through
ForcedThenReset ==
  /\ returned # None
  /\ returned.op = "reset_language_detection"
  /\ returned.after = "force_language_detection"
  /\ cpc = "idle"

\* C21: after force_language_detection and then reset_language_detection
\* the detector is unknown with confidence 0 and empty windows, and the
\* next add_result with word scores leaves what it leaves on a detector
\* that was just made.
ResetUndoesForce ==
  /\ [](ForcedThenReset =>
          /\ current_detected_language = Unknown
          /\ detection_confidence = 0
          /\ language_scores = FreshWindows)
  /\ [][(ForcedThenReset /\ nadd' = nadd + 1 /\ returned'.arg[2] # <<>>) =>
          LET scores == [FreshWindows EXCEPT ![returned'.arg[1]] =
                           <<AvgConfidence(returned'.arg[2])>>]
          IN /\ language_scores' = scores
             /\ current_detected_language' = SupportedLanguages[1]
             /\ detection_confidence' = 0]_vars

\* C21, the reset followed a force that had found windows with results.
ResetAfterForceDone ==
  /\ ForcedThenReset
  /\ nadd >= 3

\* C22: force_language_detection with a language that has no recognizer
\* returns False and changes neither the detected language nor the
\* confidence nor a window; with a language that has one it returns True
\* and leaves that language with confidence 1.0.
ForceAsSpecified ==
  /\ [][(ncmd' = ncmd + 1 /\ returned'.op = "force_language_detection"
         /\ returned'.arg \notin models) =>
          /\ returned'.value = FALSE
          /\ UNCHANGED <<current_detected_language, detection_confidence,
                         language_scores>>]_vars
  /\ [][(ncmd' = ncmd + 1 /\ returned'.op = "force_language_detection"
         /\ returned'.arg \in models) => returned'.value = TRUE]_vars
  /\ []((/\ returned # None
         /\ returned.op = "force_language_detection"
         /\ returned.value = TRUE
         /\ cpc = "idle") =>
          /\ current_detected_language = returned.arg
          /\ detection_confidence = ForcedConfidence * Scale)

\* C22, a language without recognizer was turned down by a detector that
\* had detected a language.
ForceTurnedDown ==
  /\ returned # None
  /\ returned.op = "force_language_detection"
  /\ returned.value = FALSE
  /\ current_detected_language # Unknown
  /\ detection_confidence > 0

\* ----------------------------------------------- claims: stopping the loop

\* C23: a thread that is in the loop when the stop flag is set leaves the
\* loop, and once stop_recognition has returned nothing more is handed to
\* the consumer.
StopEndsTheLoop ==
  /\ \A t \in Threads : (stop_event /\ IsAlive(t)) ~> ~IsAlive(t)
  /\ [][(stop_event /\ processing_thread = 0 /\ cpc = "idle") =>
          UNCHANGED handed]_vars

\* ------------------------------------------------ claims: the audio manager

\* C24: the frame channel never holds more than eight frames, a frame
\* delivered to a full channel takes the place of the oldest one, and the
\* frames taken from the channel come in the order of capture, each once.
FrameChannelBounded ==
  /\ [](Len(audio_queue) <= 8)
  /\ [][(ncap' = ncap + 1 /\ audio_queue' # audio_queue
         /\ Len(audio_queue) = 8) =>
          audio_queue' = Append(Tail(audio_queue), ncap + 1)]_vars
  /\ [](\A i, j \in 1..Len(got) : i < j => got[i] < got[j])

\* C25: once the stream was started and only set_device is called, a call
\* set_device(i) either returns True with the stream recording from device
\* i, or returns False with no stream recording.
SelectDeviceOutcomes ==
  [][(/\ naud' = naud + 1
      /\ areturned'.op = "set_device"
      /\ session = "selecting") =>
       \/ /\ areturned'.value = TRUE
          /\ is_recording'
          /\ stream' = areturned'.arg
       \/ /\ areturned'.value = FALSE
          /\ ~is_recording'
          /\ stream' = NoStream]_vars

\* C26: a start_recognition while a thread is in the loop starts no thread.
StartStartsOneThread ==
  [][\A t \in Threads :
       (tpc[t] = "none" /\ tpc'[t] # "none") =>
         \A u \in Threads : ~IsAlive(u)]_vars

\* C26, of the audio manager alone: start_stream while recording returns
\* True and opens nothing, stop_stream while stopped changes nothing.
StreamStartStopIdempotent ==
  /\ [][(naud' = naud + 1 /\ areturned'.op = "start_stream"
         /\ is_recording) =>
          /\ areturned'.value = TRUE
          /\ UNCHANGED <<stream, is_recording, current_device_index, nopen,
                         audio_queue>>]_vars
  /\ [][(naud' = naud + 1 /\ areturned'.op = "stop_stream"
         /\ ~is_recording) =>
          UNCHANGED <<stream, is_recording, current_device_index, nopen,
                      audio_queue>>]_vars

\* ------------------------------------------- claims: what the commands keep

PreviewAsSpecified ==
  [][\A t \in Threads :
       (tpc[t] = "partial" /\ tpc'[t] # "partial") =>
         LET lang_code == Head(todo[t])
             n == rec[lang_code].n
         IN /\ tpc'[t] = "preview"
            /\ pending'[t] # None
            /\ ~pending'[t].is_final
            /\ pending'[t].language = lang_code
            /\ pending'[t].confidence_scores = <<>>
            /\ pending'[t].text =
                 IF n <= InitialFinalizationThreshold THEN Placeholder
                 ELSE [utt |-> rec[lang_code].utt, n |-> n]]_vars

\* C28 for the partial results that have a word, while the engine has not
\* been shut down: the same, n >= 1.
PreviewOfWordsAsSpecified ==
  [][\A t \in Threads :
       (/\ tpc[t] = "partial" /\ tpc'[t] # "partial"
        /\ rec[Head(todo[t])].n >= 1
        /\ Head(todo[t]) \in DOMAIN current_sentences) =>
         LET lang_code == Head(todo[t])
             n == rec[lang_code].n
         IN /\ tpc'[t] = "preview"
            /\ pending'[t] # None
            /\ ~pending'[t].is_final
            /\ pending'[t].text =
                 IF n <= InitialFinalizationThreshold THEN Placeholder
                 ELSE [utt |-> rec[lang_code].utt, n |-> n]]_vars

\* ------------------------------------------- claims: the filter of Finals

\* C29: a Final that was filtered has one confidence per word of its
\* filtered text, in the loop's hands and in the history.
OneConfidencePerWord ==
  /\ \A l \in Langs : \A k \in 1..Len(caption_history[l]) :
       Len(caption_history[l][k].filtered_confidences) =
         Len(caption_history[l][k].filtered_text)
  /\ (ppc = "append" /\ entry.is_final) =>
       Len(entry.filtered_confidences) = Len(entry.filtered_text)

\* C29 for the Finals that carry a confidence: after the filter the scores
\* were padded or cut to the number of words and every word kept has its
\* confidence.
OneConfidencePerScoredWord ==
  (ppc = "append" /\ entry.is_final /\ entry.scores # <<>>) =>
    /\ Len(entry.scores) = entry.nwords
    /\ Len(entry.filtered_confidences) = Len(entry.filtered_text)
    /\ \A j \in 1..Len(entry.filtered_text) :
         entry.filtered_confidences[j] = entry.scores[entry.filtered_text[j]]

\* C30: a Final submitted and filtered under threshold 0 is stored with all
\* its words, in order.
ThresholdZeroKeepsAll ==
  [][(/\ ppc = "append" /\ ppc' = "preview"
      /\ entry.is_final
      /\ entry.thr0 = 0 /\ confidence_threshold = 0) =>
       /\ entry.filtered_text = [k \in 1..entry.nwords |-> k]
       /\ caption_history'[entry.language] # <<>>
       /\ Last(caption_history'[entry.language], 1)[1].filtered_text =
            [k \in 1..entry.nwords |-> k]]_vars

\* C30, under threshold 0 a Final was stored with a word of confidence 0.4,
\* below the default threshold.
LowWordStoredAtZero ==
  /\ confidence_threshold = 0
  /\ \E l \in Langs : \E k \in 1..Len(caption_history[l]) :
       /\ 40 \in Range(caption_history[l][k].filtered_confidences)
       /\ Len(caption_history[l][k].filtered_text) = caption_history[l][k].nwords

\* ------------------------------------------ claims: the threshold, later

\* the scores of a result that are at least the threshold, in order
ScoresPassing(scores, threshold) == SelectSeq(scores, LAMBDA c : c >= threshold)

\* C31: the threshold is always a value in [0, 1] (a value outside is turned
\* down); a step that changes the threshold changes no history, no preview
\* and nothing of a submission in progress; and a Final is filtered with
\* the threshold that was in force when it was submitted, so that a change
\* of the threshold reaches only the Finals submitted after it.
ThresholdReachesOnlyLaterFinals ==
  /\ [](confidence_threshold \in 0..100)
  /\ [][confidence_threshold' # confidence_threshold =>
          UNCHANGED <<caption_history, current_previews, entry, ppc>>]_vars
  /\ []((ppc = "append" /\ entry.is_final) =>
          entry.filtered_confidences = ScoresPassing(entry.scores, entry.thr0))

\* C31, the part that holds: the threshold stays in [0, 1], and a step that
\* changes it leaves the histories, the previews and the stored entries
\* with their filtered words and confidences.
ThresholdUpdateKeepsStored ==
  /\ [](confidence_threshold \in 0..100)
  /\ [][confidence_threshold' # confidence_threshold =>
          UNCHANGED <<caption_history, current_previews, entry, ppc>>]_vars

\* ------------------------------------------------- claims: clear_history

\* what a step of clear_history leaves, by the scope it was called with
ClearedScope ==
  LET l == cleared'.language
  IN /\ l = "" => /\ \A x \in Langs : caption_history'[x] = <<>>
                  /\ \A x \in Langs : current_previews'[x] = None
     /\ l \in Langs => /\ caption_history'[l] = <<>>
                       /\ current_previews'[l] = None
                       /\ \A x \in Langs \ {l} :
                             /\ caption_history'[x] = caption_history[x]
                             /\ current_previews'[x] = current_previews[x]
     /\ l \notin Langs \cup {""} => UNCHANGED <<caption_history, current_previews>>

\* the history step of the first Final of a language since a clear_history
\* of every language: that clear is the last one, and no Final has entered
\* the history of the language since
FirstFinalSinceClearAll ==
  /\ ppc = "append" /\ ppc' = "preview"
  /\ cleared # None
  /\ cleared.language = ""
  /\ stored[entry.language] = <<>>

\* C32 as it was claimed: clear_history of a language empties its history
\* and its preview and leaves the other languages, of every language
\* empties all, of an unknown language changes nothing; and the one Final
\* submitted after a clear of every language leaves exactly one entry in
\* the history of its language.
ClearThenFinalIsOneEntry ==
  [][/\ cleared' # cleared => ClearedScope
     /\ FirstFinalSinceClearAll =>
           Len(caption_history'[entry.language]) = 1]_vars

\* C32: clear_history of a language empties its history and its preview and
\* leaves the other languages, of every language empties all, of an unknown
\* language changes nothing; and the one Final submitted after a clear of
\* every language leaves exactly one entry in the history of its language
\* when one of its words is kept by the filter, and none when all of its
\* words are filtered out.
ClearThenKeptFinalIsOneEntry ==
  [][/\ cleared' # cleared => ClearedScope
     /\ FirstFinalSinceClearAll =>
           Len(caption_history'[entry.language]) =
             (IF entry.filtered_text # <<>> THEN 1 ELSE 0)]_vars

\* C32, Finals were submitted, every history was cleared, and the one Final
\* submitted since is the one entry of the history of its language.
FinalAfterClearAllStored ==
  /\ cleared # None
  /\ cleared.language = ""
  /\ ppc = "preview"
  /\ entry.is_final
  /\ entry.utt >= 2
  /\ stored[entry.language] = <<entry.utt>>
  /\ Len(caption_history[entry.language]) = 1

\* ------------------------------------------- claims: errors in the loop

\* thread t has caught an error of the language at the head of its list
ErrorCaughtBy(t) ==
  /\ \A u \in Threads \ {t} : tpc'[u] = tpc[u] /\ todo'[u] = todo[u]
  /\ \/ tpc'[t] = "langs" /\ todo[t] # <<>> /\ todo'[t] = Tail(todo[t])
     \/ tpc'[t] = "partial" /\ todo'[t] = todo[t]
  /\ pending'[t] = None
  /\ \A l \in Langs :
        \/ handed'[l] = handed[l]
        \/ /\ pending[t] # None
           /\ pending[t].language = l
           /\ handed'[l] = Append(handed[l], pending[t])

\* C33: a step that logs an error of one language fabricates no event (at
\* most the result the callback was called with is handed over), leaves
\* the histories, the previews and the detector, keeps the rest of the
\* languages the frame was routed to in the list of the thread, and leaves
\* the thread in the loop; a thread leaves the loop only with the stop flag
\* set.
ErrorsStayLocal ==
  /\ [][logged' # logged =>
          /\ \E t \in Threads : ErrorCaughtBy(t)
          /\ UNCHANGED <<caption_history, current_previews, detvars,
                         stop_event, processing_thread>>]_vars
  /\ [][\A t \in Threads :
          (tpc[t] # "exited" /\ tpc'[t] = "exited") => stop_event]_vars

\* C33, in the first frame the Result() of "en" was not JSON: its utterance
\* is gone, nothing was handed over for "en", and "es" has got its Final of
\* the same frame; the thread is back at the top of the loop.
OtherLanguageStillFed ==
  /\ nframes = 1
  /\ logged = 1
  /\ rec["en"].utt = 2
  /\ handed["en"] = <<>>
  /\ Len(handed["es"]) = 1
  /\ handed["es"][1].is_final
  /\ \E t \in Threads : tpc[t] = "top"

\* ------------------------------------------- claims: the construction

\* the languages whose model loads, and those whose recognizer is made too
Loadable == {l \in Langs : installed[l] \in {"norecognizer", "ok"}}
Usable == {l \in Langs : installed[l] = "ok"}

\* C34: the construction succeeds exactly when a model loads and a
\* recognizer is made; the models are those of the languages that load,
\* whatever the other languages have; it fails when no model loads; and
\* after a success the recognizers are a non-empty subset of the models and
\* the utterance tracking exists for the languages of the recognizers and
\* no others.
ConstructionAsSpecified ==
  /\ cpc \in {"recognizers", "idle"} => (models = Loadable /\ models # {})
  /\ (cpc # "constructing" /\ Loadable = {}) => cpc = "failed"
  /\ cpc = "failed" => (Usable = {} /\ recognizers = <<>>)
  /\ cpc = "idle" => Usable # {}
  /\ cpc = "idle" =>
        /\ Range(recognizers) = Usable
        /\ Range(recognizers) # {}
        /\ Range(recognizers) \subseteq models
        /\ DOMAIN current_sentences = Range(recognizers)
        /\ DOMAIN current_confidences = Range(recognizers)
        /\ DOMAIN word_count = Range(recognizers)

\* C34, the engine is constructed on a machine where the model of "en" is
\* missing, that of "es" loads but gets no recognizer, and "fr" has both.
ConstructedWithOneLanguage ==
  /\ cpc = "idle"
  /\ installed["en"] = "missing"
  /\ installed["es"] = "norecognizer"
  /\ recognizers = <<"fr">>
  /\ models = {"es", "fr"}

\* ---------------------------------------------------- claims: colours

\* the two mappings give green from 0.85, yellow from 0.65, red from 0.5
\* and the neutral white below, and agree on every confidence
ColorsMapped ==
  \A c \in 0..100 :
    /\ GetTextColorForConfidence(c) =
          (IF c >= 85 THEN "green" ELSE IF c >= 65 THEN "yellow"
           ELSE IF c >= 50 THEN "red" ELSE "white")
    /\ GetColorForConfidence(c) = GetTextColorForConfidence(c)

\* C35: the mappings are as above; and while the threshold is the default
\* one, no word of the filtered text of a Final in a history is shown in
\* the neutral colour.
StoredWordsNeverNeutral ==
  /\ ColorsMapped
  /\ confidence_threshold = DefaultConfidenceThreshold =>
        \A l \in Langs : \A k \in 1..Len(caption_history[l]) :
          \A i \in 1..Len(caption_history[l][k].filtered_text) :
            InsertedColor(caption_history[l][k].filtered_confidences, i) # "white"

\* C35, the part that holds: the mappings are as above, and while the
\* threshold is the default one no confidence stored with a Final maps to
\* the neutral colour.
StoredConfidencesNeverNeutral ==
  /\ ColorsMapped
  /\ confidence_threshold = DefaultConfidenceThreshold =>
        \A l \in Langs : \A k \in 1..Len(caption_history[l]) :
          \A i \in 1..Len(caption_history[l][k].filtered_confidences) :
            GetTextColorForConfidence(caption_history[l][k].filtered_confidences[i])
              # "white"

\* --------------------------------------------------- claims: statistics

\* the number of confidences stored with the entries of a history
RECURSIVE ConfidencesIn(_)
ConfidencesIn(history) ==
  IF history = <<>> THEN 0
  ELSE Len(history[1].filtered_confidences) + ConfidencesIn(Tail(history))

\* the statistics st are those of the history: its length, the number of
\* its confidences, and three bands that add up to that number
StatisticsOf(st, history) ==
  /\ st.total_captions = Len(history)
  /\ "total_words" \in DOMAIN st
  /\ st.total_words = ConfidencesIn(history)
  /\ st.high_confidence_count + st.medium_confidence_count
       + st.low_confidence_count = st.total_words

\* C36: in every state the statistics of every language report the length
\* of its history, the number of filtered confidences in it, and three
\* bands that add up to that number, also when the history is empty or its
\* entries carry no confidences.
StatisticsAsSpecified ==
  \A l \in Langs :
    StatisticsOf(GetConfidenceStatistics(caption_history[l]), caption_history[l])

\* C36, the part that holds: the same for every history that holds a
\* confidence; and the statistics of the other histories report the
\* length and three bands of zero.
StatisticsOfScoredHistories ==
  \A l \in Langs :
    LET st == GetConfidenceStatistics(caption_history[l])
    IN IF ConfidencesIn(caption_history[l]) > 0
       THEN StatisticsOf(st, caption_history[l])
       ELSE /\ st.total_captions = Len(caption_history[l])
            /\ st.high_confidence_count + st.medium_confidence_count
                 + st.low_confidence_count = 0

\* ---------------------------------------------------------------- C37
\* what a caption consists of: its text and its word confidences, as
\* recognized and as filtered
CaptionContent == {"text", "confidence_scores", "filtered_text", "filtered_confidences"}

FinalStepAsSpecified ==
  \A t \in Threads :
    /\ tpc[t] = "preview" => emitted[t] = <<>>
    /\ (tpc[t] = "partial" /\ emitted[t] = <<"Final">>) =>
         LET lang_code == Head(todo[t])
         IN lang_code \in DOMAIN current_sentences =>
              /\ current_sentences[lang_code] = EmptyText
              /\ current_confidences[lang_code] = <<>>
              /\ word_count[lang_code] = 0

\* C38, the reading of the partial result: once the Final of a step has been
\* notified the step is over, PartialResult is not read
PartialReadOnlyWithoutFinal ==
  [][\A t \in Threads : tpc[t] = "final" => tpc'[t] \in {"final", "langs"}]_vars

\* C38, the events of a step alone: no thread is about to notify a Preview
\* in a step that has notified a Final
OneEventPerStep == \A t \in Threads : tpc[t] = "preview" => emitted[t] = <<>>

\* C38 with one loop thread: a step notifies one event at most
OneThreadOneEventPerStep ==
  (\A t \in Threads : t # 1 => tpc[t] = "none") =>
    \A t \in Threads : tpc[t] = "preview" => emitted[t] = <<>>

\* ---------------------------------------------------------------- C39
\* C39: when run_application has ended, the application is stopped, every
\* component has been shut down (the engine holds no models, recognizers or
\* tracking), and no loop thread and no audio stream remain.
CleanupAsSpecified ==
  mpc = "left" =>
    /\ ~is_running
    /\ models = {}
    /\ recognizers = <<>>
    /\ current_sentences = <<>>
    /\ \A t \in Threads : ~IsAlive(t)
    /\ stream = NoStream

\* C39, what stop_application does: when run_application has ended, the
\* application is not running, the stop flag is set if the engine was
\* started, and the audio manager holds no stream
CleanupStopsTheApplication ==
  mpc = "left" =>
    /\ ~is_running
    /\ stream = NoStream
    /\ ~is_recording
    /\ (\E t \in Threads : tpc[t] # "none") => stop_event

\* C39, the loop thread: a thread still in the loop when run_application
\* has ended
NoThreadAfterCleanup ==
  mpc = "left" => \A t \in Threads : ~IsAlive(t)

\* ---------------------------------------------------------------- C40
\* the detector as reset_language_detection leaves it
DetectorIsReset ==
  /\ current_detected_language' = Unknown
  /\ detection_confidence' = 0
  /\ \A l \in DOMAIN language_scores' : language_scores'[l] = <<>>
  /\ override' = "none"

\* C40: when an accepted set_active_languages returns, the detector is
\* reset (unknown, confidence 0, every window empty, no override), and a
\* rejected set_active_languages leaves the detector as it was.
SetActiveResetsDetector ==
  /\ [][(cpc = "reset_windows" /\ cpc' = "idle"
          /\ returned.op = "set_active_languages") => DetectorIsReset]_vars
  /\ [][(cpc = "idle" /\ cpc' = "idle" /\ returned' # returned
          /\ returned'.op = "set_active_languages") =>
          UNCHANGED <<current_detected_language, detection_confidence,
                      language_scores, override>>]_vars

\* C40 with one caller of the detector: the same, when no loop thread has
\* been started
SetActiveResetsDetectorOneCaller ==
  /\ [][(cpc = "reset_windows" /\ cpc' = "idle"
          /\ returned.op = "set_active_languages"
          /\ \A t \in Threads : tpc[t] = "none") => DetectorIsReset]_vars
  /\ [][(cpc = "idle" /\ cpc' = "idle" /\ returned' # returned
          /\ returned'.op = "set_active_languages") =>
          UNCHANGED <<current_detected_language, detection_confidence,
                      language_scores, override>>]_vars

\* C40, the routing: a frame read while the detected language is unknown is
\* offered to every active language that has a recognizer
UnknownRoutesToActive ==
  [][\A t \in Threads :
       (tpc[t] = "route" /\ tpc'[t] = "fallback" /\ routed[t].detected = Unknown) =>
         Range(todo'[t]) = Range(recognizers) \cap active_languages]_vars

====
